---- MODULE Spec2Model ----
(***************************************************************************)
(* Folder Bulk Operations: the Filesystem Applier of src/server/index.js   *)
(* (POST /api/apply-changes, POST /api/remove-backup) acting on a real     *)
(* directory tree, and the editing session of the browser client          *)
(* (src/client/src, src/unnamed) that records the change log.              *)
(*                                                                         *)
(* A path is a sequence of names.  The filesystem is a function from the   *)
(* absolute paths that exist to their kind, "dir" or "file"; the path <<>> *)
(* is the parent directory that holds the root and its backups.            *)
(***************************************************************************)
EXTENDS Integers, Sequences, FiniteSets, TLC

\* ---------------------------------------------------------------- bounds
\* longest change log of an apply request
MaxLog == 2
\* apply requests handled in one behaviour
MaxApplies == 1
\* remove-backup requests handled in one behaviour
MaxRemoves == 2
\* deepest relative path named by a change entry
MaxDepth == 2
\* edit gestures (drops, renames, delete clicks) made in one behaviour
MaxEdits == 2
\* apply requests sent by the page in one behaviour
MaxSubmits == 2
MaxSessionEdits == 3   \* the edit gestures of a session of the edit engine alone
MaxItems == 2          \* the items of one level of a compared structure
MaxOtherLog == 1       \* the length of the second, overlapping call's changeLog

Names == {"a", "b"}

\* a.name.localeCompare(b.name) on the names used: their position here
NameOrder == <<"a", "b", "c">>

Rank(n) == CHOOSE k \in 1..Len(NameOrder) : NameOrder[k] = n

\* ------------------------------------------------------------ path algebra
IsPrefix(p, q) == Len(p) <= Len(q) /\ SubSeq(q, 1, Len(p)) = p

IsStrictPrefix(p, q) == Len(p) < Len(q) /\ SubSeq(q, 1, Len(p)) = p

\* path.dirname
Dirname(p) == IF p = <<>> THEN <<>> ELSE SubSeq(p, 1, Len(p) - 1)

\* path.basename
Basename(p) == p[Len(p)]

RECURSIVE Normalize(_, _)
\* path.normalize: "." and "" segments dropped, ".." pops one segment
Normalize(done, rest) ==
  IF rest = <<>> THEN done
  ELSE LET s == Head(rest) IN
       IF s = "." \/ s = "" THEN Normalize(done, Tail(rest))
       ELSE IF s = ".." THEN Normalize(Dirname(done), Tail(rest))
       ELSE Normalize(Append(done, s), Tail(rest))

\* path.join(base, rel)
Join(base, rel) == Normalize(<<>>, base \o rel)

\* ------------------------------------------------------- filesystem model
Exists(f, p) == p \in DOMAIN f

IsDir(f, p) == p = <<>> \/ (p \in DOMAIN f /\ f[p] = "dir")

\* p and everything below it
Under(f, p) == {q \in DOMAIN f : IsPrefix(p, q)}

Restrict(f, S) == [q \in S |-> f[q]]

\* fs.rm(p, {recursive: true, force: true}) and fs.unlink(p), succeeding
RemoveTree(f, p) == Restrict(f, DOMAIN f \ Under(f, p))

\* the first index at which two paths differ (one not a prefix of the other)
FirstDiff(p, q) == CHOOSE k \in 1..Len(p) : k <= Len(q) /\ p[k] # q[k] /\ SubSeq(p, 1, k - 1) = SubSeq(q, 1, k - 1)

\* p is visited before q by a walk that handles a directory before its entries
PreBefore(p, q) ==
  /\ p # q
  /\ \/ IsPrefix(p, q)
     \/ ~IsPrefix(q, p) /\ Rank(p[FirstDiff(p, q)]) < Rank(q[FirstDiff(p, q)])

\* p is removed before q by a walk that empties a directory before removing it
PostBefore(p, q) ==
  /\ p # q
  /\ \/ IsPrefix(q, p)
     \/ ~IsPrefix(p, q) /\ Rank(p[FirstDiff(p, q)]) < Rank(q[FirstDiff(p, q)])

\* the paths of src that a copy has handled after k of its steps
CopiedAfter(f, src, k) ==
  {q \in Under(f, src) : Cardinality({p \in Under(f, src) : PreBefore(p, q)}) < k}

\* copyDirectory(src, dest) stopped after k steps; k = all of them: the full copy
CopyPrefix(f, src, dest, k) ==
  LET S   == CopiedAfter(f, src, k)
      New == {dest \o SubSeq(q, Len(src) + 1, Len(q)) : q \in S}
  IN  [p \in DOMAIN f \cup New |->
         IF p \in New
           THEN f[src \o SubSeq(p, Len(dest) + 1, Len(p))]
           ELSE f[p]]

CopySteps(f, src) == Cardinality(Under(f, src))

\* copyDirectory(src, dest), succeeding
CopyDirectory(f, src, dest) == CopyPrefix(f, src, dest, CopySteps(f, src))

\* removeDirectory(p) that throws after k removals: the directory itself stays
RemovePrefix(f, p, k) ==
  LET Gone == {q \in Under(f, p) : Cardinality({r \in Under(f, p) : PostBefore(r, q)}) < k}
  IN  Restrict(f, DOMAIN f \ Gone)

\* fs.mkdir(p, {recursive: true}): fails when a component of p is a file
MkdirOk(f, p) == \A k \in 1..Len(p) : ~(Exists(f, SubSeq(p, 1, k)) /\ f[SubSeq(p, 1, k)] = "file")

Mkdirp(f, p) ==
  LET New == {SubSeq(p, 1, k) : k \in 1..Len(p)}
  IN  [q \in DOMAIN f \cup New |-> IF q \in DOMAIN f THEN f[q] ELSE "dir"]

\* fs.rename(from, to) succeeds (POSIX rename)
RenameOk(f, from, to) ==
  /\ from # <<>> /\ to # <<>>
  /\ Exists(f, from)
  /\ IsDir(f, Dirname(to))
  /\ \/ from = to
     \/ /\ ~IsPrefix(from, to)
        /\ Exists(f, to) =>
             IF f[from] = "dir"
               THEN f[to] = "dir" /\ Under(f, to) = {to}
               ELSE f[to] = "file"

FsRename(f, from, to) ==
  IF from = to THEN f
  ELSE LET Moved == Under(f, from)
           New   == {to \o SubSeq(q, Len(from) + 1, Len(q)) : q \in Moved}
           Keep  == (DOMAIN f \ Moved) \ {to}
       IN  [p \in Keep \cup New |->
              IF p \in New
                THEN f[from \o SubSeq(p, Len(to) + 1, Len(p))]
                ELSE f[p]]

\* the tree below p, by paths relative to p
Tree(f, p) ==
  [q \in {SubSeq(x, Len(p) + 1, Len(x)) : x \in Under(f, p)} |-> f[p \o q]]

\* the override branch: stat the destination, remove it if it is there;
\* every error is swallowed
RemoveExisting(f, p) == IF Exists(f, p) /\ p # <<>> THEN RemoveTree(f, p) ELSE f

\* --------------------------------------------- the client's tree model
\* A TreeNode is [name, isDirectory, size, children]; a file has no children
\* property, modelled as children = <<>> with isDirectory = FALSE; every
\* directory the client builds has one.
File(n, sz) == [name |-> n, isDirectory |-> FALSE, size |-> sz, children |-> <<>>]

Dir(n, ch) == [name |-> n, isDirectory |-> TRUE, size |-> 0, children |-> ch]

\* item.children is defined
HasChildren(item) == item.isDirectory

\* Array.prototype.findIndex(it => it.name === name): 0 stands for -1
FindIndex(items, n) ==
  IF \E k \in 1..Len(items) : items[k].name = n
    THEN CHOOSE k \in 1..Len(items) :
           items[k].name = n /\ \A j \in 1..(k - 1) : items[j].name # n
    ELSE 0

\* Array.prototype.splice(index, 1)
Splice(items, k) == SubSeq(items, 1, k - 1) \o SubSeq(items, k + 1, Len(items))

RECURSIVE findItemLocation(_, _)
\* the location of the item at path parts: the indices that lead to it from
\* the top-level array; <<>> stands for null
findItemLocation(structure, parts) ==
  IF parts = <<>> THEN <<>>
  ELSE LET k == FindIndex(structure, Head(parts)) IN
       IF k = 0 THEN <<>>
       ELSE IF Len(parts) = 1 THEN <<k>>
       ELSE IF ~HasChildren(structure[k]) THEN <<>>
       ELSE LET rest == findItemLocation(structure[k].children, Tail(parts)) IN
            IF rest = <<>> THEN <<>> ELSE <<k>> \o rest

RECURSIVE ItemAt(_, _)
\* location.item
ItemAt(structure, loc) ==
  IF Len(loc) = 1 THEN structure[loc[1]]
  ELSE ItemAt(structure[loc[1]].children, Tail(loc))

RECURSIVE ArrayAt(_, _)
\* the array reached through the items at the indices dirLoc (<<>>: the
\* top-level array); location.parent is ArrayAt(structure, all but the last)
ArrayAt(structure, dirLoc) ==
  IF dirLoc = <<>> THEN structure
  ELSE ArrayAt(structure[dirLoc[1]].children, Tail(dirLoc))

RECURSIVE WithArrayAt(_, _, _)
\* the structure after the array at dirLoc has been mutated in place to items
WithArrayAt(structure, dirLoc, items) ==
  IF dirLoc = <<>> THEN items
  ELSE [structure EXCEPT ![dirLoc[1]].children = WithArrayAt(@, Tail(dirLoc), items)]

\* findItemByPath: <<>> stands for null, else the location of the item found
findItemByPath(structure, parts) == findItemLocation(structure, parts)

\* findConflict looking at files only: a directory of that name is no conflict
findConflictAmongFiles(targetArray, n, exclude) ==
  IF \E k \in 1..Len(targetArray) :
       targetArray[k].name = n /\ k # exclude /\ ~targetArray[k].isDirectory
    THEN CHOOSE k \in 1..Len(targetArray) :
           targetArray[k].name = n /\ k # exclude /\ ~targetArray[k].isDirectory
    ELSE 0

\* findConflict(targetArray, name, excludeItem): the index of the first item
\* of that name other than the one at index exclude (0: no excludeItem), or 0
findConflict(targetArray, n, exclude) ==
  IF \E k \in 1..Len(targetArray) : targetArray[k].name = n /\ k # exclude
    THEN CHOOSE k \in 1..Len(targetArray) :
           /\ targetArray[k].name = n /\ k # exclude
           /\ \A j \in 1..(k - 1) : ~(targetArray[j].name = n /\ j # exclude)
    ELSE 0

RECURSIVE SumSizes(_)
SumSizes(items) == IF items = <<>> THEN 0 ELSE Head(items).size + SumSizes(Tail(items))

RECURSIVE recalculateSizes(_)
\* recalculateSizes: the structure with every directory's size recomputed
recalculateSizes(structure) ==
  IF structure = <<>> THEN <<>>
  ELSE LET item == Head(structure)
           ch   == recalculateSizes(item.children)
           it2  == IF item.isDirectory /\ HasChildren(item)
                     THEN [item EXCEPT !.children = ch, !.size = SumSizes(ch)]
                     ELSE item
       IN  <<it2>> \o recalculateSizes(Tail(structure))

\* the comparator with the two type tests exchanged: files first
SortsBeforeFilesFirst(a, b) ==
  IF a.isDirectory /\ ~b.isDirectory THEN FALSE
  ELSE IF ~a.isDirectory /\ b.isDirectory THEN TRUE
  ELSE Rank(a.name) < Rank(b.name)

\* the comparator without the type tests: by name alone
SortsBeforeByName(a, b) == Rank(a.name) < Rank(b.name)

\* the comparator of sortItems: a sorts strictly before b
SortsBefore(a, b) ==
  IF a.isDirectory /\ ~b.isDirectory THEN TRUE
  ELSE IF ~a.isDirectory /\ b.isDirectory THEN FALSE
  ELSE Rank(a.name) < Rank(b.name)

RECURSIVE InsertSorted(_, _)
\* insert x behind every item that does not sort after it (a stable sort)
InsertSorted(sorted, x) ==
  IF sorted = <<>> THEN <<x>>
  ELSE IF SortsBefore(x, Head(sorted)) THEN <<x>> \o sorted
  ELSE <<Head(sorted)>> \o InsertSorted(Tail(sorted), x)

RECURSIVE SortLevel(_, _)
SortLevel(done, rest) ==
  IF rest = <<>> THEN done ELSE SortLevel(InsertSorted(done, Head(rest)), Tail(rest))

\* sortItems that leaves the array as it finds it
sortItemsAsIs(items) == items

RECURSIVE sortItems(_)
\* sortItems: Array.prototype.sort with the comparator, then every children
sortItems(items) ==
  LET sorted == SortLevel(<<>>, items)
  IN  [k \in 1..Len(sorted) |->
         IF HasChildren(sorted[k])
           THEN [sorted[k] EXCEPT !.children = sortItems(@)]
           ELSE sorted[k]]

\* path.split('/').filter(p => p) and parts.join('/'): a path is kept as
\* its sequence of names
getParentPath(parts) == IF parts = <<>> THEN <<>> ELSE SubSeq(parts, 1, Len(parts) - 1)

\* targetPath.startsWith(draggedItemPath + '/')
StartsWithSlash(targetPath, draggedItemPath) == IsStrictPrefix(draggedItemPath, targetPath)

RECURSIVE hasStructureChangedOneWay(_, _)
\* a change detection that looks for the original's names in the current
\* structure only: no comparison of lengths, no second loop
hasStructureChangedOneWay(original, current) ==
  \E k \in 1..Len(original) :
    \/ ~\E j \in 1..Len(current) : current[j].name = original[k].name
    \/ \E j \in 1..Len(current) :
         /\ current[j].name = original[k].name
         /\ \/ original[k].isDirectory # current[j].isDirectory
            \/ /\ original[k].isDirectory
               /\ hasStructureChangedOneWay(original[k].children, current[j].children)

RECURSIVE hasStructureChanged(_, _)
\* hasStructureChanged(original, current); an item without children has
\* children = <<>>, which is what item.children || [] reads
hasStructureChanged(original, current) ==
  \/ Len(original) # Len(current)
  \/ \E k \in 1..Len(original) :
       LET origItem == original[k]
           \* new Map(...): the last item of a name wins
           IsLast(items, j) == \A m \in (j + 1)..Len(items) : items[m].name # items[j].name
       IN  /\ IsLast(original, k)
           /\ \/ ~\E j \in 1..Len(current) : current[j].name = origItem.name
              \/ \E j \in 1..Len(current) :
                   /\ current[j].name = origItem.name /\ IsLast(current, j)
                   /\ \/ origItem.isDirectory # current[j].isDirectory
                      \/ /\ origItem.isDirectory /\ current[j].isDirectory
                         /\ hasStructureChanged(origItem.children, current[j].children)
  \/ \E j \in 1..Len(current) : ~\E k \in 1..Len(original) : original[k].name = current[j].name

\* location.parent of a location: the indices of the directory that holds it
Front(loc) == SubSeq(loc, 1, Len(loc) - 1)

Last(loc) == loc[Len(loc)]

RECURSIVE AllPaths(_)
\* the itemPath of every item renderTree draws
AllPaths(items) ==
  UNION {{<<items[k].name>>} \cup {<<items[k].name>> \o q : q \in AllPaths(items[k].children)} :
           k \in 1..Len(items)}

\* the item drawn at a path
ItemOf(items, parts) == ItemAt(items, findItemLocation(items, parts))

\* the paths at which renderTree draws a directory
DirPaths(items) == {q \in AllPaths(items) : ItemOf(items, q).isDirectory}

\* an edit operation's outcome: the structure, the log, and whether it ran
\* to its end (refreshTreeAndStats) or returned early
Outcome(tree, log, refreshed) == [tree |-> tree, log |-> log, refreshed |-> refreshed]

\* performMove without the removal of the same-named child of the target
performMoveBesideExisting(structure, log, sourcePath, targetPath, override) ==
  LET loc == findItemLocation(structure, sourcePath) IN
  IF loc = <<>> THEN Outcome(structure, log, FALSE)
  ELSE
    LET movedItem == ItemAt(structure, loc)
        s1 == WithArrayAt(structure, Front(loc), Splice(ArrayAt(structure, Front(loc)), Last(loc)))
        tl == IF targetPath = <<>> THEN <<>> ELSE findItemByPath(s1, targetPath)
    IN
    IF targetPath # <<>> /\ (tl = <<>> \/ ~ItemAt(s1, tl).isDirectory)
      THEN Outcome(s1, log, FALSE)
    ELSE
      LET t2 == sortItems(Append(ArrayAt(s1, tl), movedItem))
          s2 == recalculateSizes(WithArrayAt(s1, tl, t2))
      IN  Outcome(s2,
                  Append(log, [type |-> "move", from |-> sourcePath,
                               to |-> targetPath \o <<movedItem.name>>,
                               override |-> override]),
                  TRUE)

performMove(structure, log, sourcePath, targetPath, override) ==
  LET loc == findItemLocation(structure, sourcePath) IN
  IF loc = <<>> THEN Outcome(structure, log, FALSE)
  ELSE
    LET movedItem == ItemAt(structure, loc)
        s1 == WithArrayAt(structure, Front(loc), Splice(ArrayAt(structure, Front(loc)), Last(loc)))
        tl == IF targetPath = <<>> THEN <<>> ELSE findItemByPath(s1, targetPath)
    IN
    IF targetPath # <<>> /\ (tl = <<>> \/ ~ItemAt(s1, tl).isDirectory)
      THEN Outcome(s1, log, FALSE)
    ELSE
      LET targetArray == ArrayAt(s1, tl)
          existingIndex == FindIndex(targetArray, movedItem.name)
          t1 == IF override /\ existingIndex # 0 THEN Splice(targetArray, existingIndex)
                ELSE targetArray
          t2 == sortItems(Append(t1, movedItem))
          s2 == recalculateSizes(WithArrayAt(s1, tl, t2))
      IN  Outcome(s2,
                  Append(log, [type |-> "move", from |-> sourcePath,
                               to |-> targetPath \o <<movedItem.name>>,
                               override |-> override]),
                  TRUE)

\* performRename without the sort of the parent array
performRenameInPlace(structure, log, itemPath, newName, override) ==
  LET loc == findItemLocation(structure, itemPath) IN
  IF loc = <<>> THEN Outcome(structure, log, FALSE)
  ELSE
    LET parent == ArrayAt(structure, Front(loc))
        k == Last(loc)
        existingIndex == findConflict(parent, newName, k)
        removed == override /\ existingIndex # 0
        p1 == IF removed THEN Splice(parent, existingIndex) ELSE parent
        k1 == IF removed /\ existingIndex < k THEN k - 1 ELSE k
    IN  Outcome(WithArrayAt(structure, Front(loc), [p1 EXCEPT ![k1].name = newName]),
                Append(log, [type |-> "rename", path |-> itemPath, oldName |-> parent[k].name,
                             newName |-> newName, override |-> override]),
                TRUE)

performRename(structure, log, itemPath, newName, override) ==
  LET loc == findItemLocation(structure, itemPath) IN
  IF loc = <<>> THEN Outcome(structure, log, FALSE)
  ELSE
    LET parent == ArrayAt(structure, Front(loc))
        k == Last(loc)
        oldName == parent[k].name
        existingIndex == findConflict(parent, newName, k)
        removed == override /\ existingIndex # 0
        p1 == IF removed THEN Splice(parent, existingIndex) ELSE parent
        k1 == IF removed /\ existingIndex < k THEN k - 1 ELSE k
        p2 == sortItems([p1 EXCEPT ![k1].name = newName])
    IN  Outcome(WithArrayAt(structure, Front(loc), p2),
                Append(log, [type |-> "rename", path |-> itemPath, oldName |-> oldName,
                             newName |-> newName, override |-> override]),
                TRUE)

performDelete(structure, log, itemPath, item) ==
  LET loc == findItemLocation(structure, itemPath) IN
  IF loc = <<>> THEN Outcome(structure, log, FALSE)
  ELSE
    LET s1 == WithArrayAt(structure, Front(loc), Splice(ArrayAt(structure, Front(loc)), Last(loc)))
    IN  Outcome(recalculateSizes(s1),
                Append(log, [type |-> "delete", path |-> itemPath, itemName |-> item.name,
                             isDirectory |-> item.isDirectory]),
                TRUE)

\* ------------------------------------------- the structural comparison
\* An item of a structure handed to compareStructures: what the page sends
\* (any JSON array) or what getDirectoryStructure returns. hasChildren tells
\* whether the item has a children property at all. A path is the sequence
\* of the names that currentPath joins with "/"; names are not empty and
\* hold no "/".
CmpFile(n) ==
  [name |-> n, isDirectory |-> FALSE, size |-> 0, lastModified |-> 0,
   hasChildren |-> FALSE, children |-> <<>>]

CmpDir(n, ch) ==
  [name |-> n, isDirectory |-> TRUE, size |-> 0, lastModified |-> 0,
   hasChildren |-> TRUE, children |-> ch]

\* a directory item with no children property
CmpDirBare(n) == [CmpDir(n, <<>>) EXCEPT !.hasChildren = FALSE]

Range(seq) == {seq[i] : i \in 1..Len(seq)}

RECURSIVE KeyOrder(_)
\* the keys of new Map(items.map(item => [item.name, item])) as its iterator
\* yields them: each name once, at the place of its first occurrence
KeyOrder(items) ==
  IF items = <<>> THEN <<>>
  ELSE LET front == KeyOrder(Front(items))
           n == Last(items).name
       IN  IF n \in Range(front) THEN front ELSE Append(front, n)

\* a lookup table that indexes the items only as long as their names ascend
NewMapAscending(items) ==
  LET ok(i) == \A j \in 1..(i - 1) : Rank(items[j].name) < Rank(items[j + 1].name)
      kept == SelectSeq([i \in 1..Len(items) |-> [at |-> i, item |-> items[i]]],
                        LAMBDA e : ok(e.at))
  IN  [keys |-> [i \in 1..Len(kept) |-> kept[i].item.name],
       at |-> [n \in {kept[i].item.name : i \in 1..Len(kept)} |->
                 (CHOOSE e \in Range(kept) : e.item.name = n).item]]

\* new Map(items.map(item => [item.name, item])): of two items with one name
\* the later one is the value
NewMap(items) ==
  [keys |-> KeyOrder(items),
   at |-> [n \in {items[i].name : i \in 1..Len(items)} |->
             items[CHOOSE i \in 1..Len(items) :
                     /\ items[i].name = n
                     /\ \A j \in (i + 1)..Len(items) : items[j].name # n]]]

\* map.has(name)
Has(map, n) == n \in DOMAIN map.at

\* a shallow reading of item.children: nothing below the first level
ChildrenOrEmptyShallow(item) == <<>>

\* item.children || []
ChildrenOrEmpty(item) == IF item.hasChildren THEN item.children ELSE <<>>

\* a type check that looks at the size as well
SameTypeAndSize(clientItem, serverItem) ==
  clientItem.isDirectory = serverItem.isDirectory /\ clientItem.size = serverItem.size

\* clientItem.isDirectory !== serverItem.isDirectory, negated
SameType(clientItem, serverItem) == clientItem.isDirectory = serverItem.isDirectory

Difference(type, path) == [type |-> type, path |-> path]

RECURSIVE compare(_, _, _)
RECURSIVE ClientLoop(_, _, _, _)

\* a client loop that, on a type mismatch, goes on below the entry
ClientLoopBelowMismatch(keys, clientMap, serverMap, pathPrefix) ==
  IF keys = <<>> THEN <<>>
  ELSE
    LET name == Head(keys)
        clientItem == clientMap.at[name]
        currentPath == Append(pathPrefix, name)
        rest == ClientLoop(Tail(keys), clientMap, serverMap, pathPrefix)
    IN  IF ~Has(serverMap, name)
          THEN <<Difference("missing_on_server", currentPath)>> \o rest
        ELSE
          LET serverItem == serverMap.at[name] IN
            IF ~SameType(clientItem, serverItem)
              THEN <<Difference("type_mismatch", currentPath)>>
                   \o compare(ChildrenOrEmpty(clientItem), ChildrenOrEmpty(serverItem),
                              currentPath)
                   \o rest
            ELSE IF clientItem.isDirectory /\ serverItem.isDirectory
              THEN compare(ChildrenOrEmpty(clientItem), ChildrenOrEmpty(serverItem),
                           currentPath) \o rest
            ELSE rest

\* for (const [name, clientItem] of clientMap): what the turns for keys push
\* onto differences, in order
ClientLoop(keys, clientMap, serverMap, pathPrefix) ==
  IF keys = <<>> THEN <<>>
  ELSE
    LET name == Head(keys)
        clientItem == clientMap.at[name]
        currentPath == Append(pathPrefix, name)
        rest == ClientLoop(Tail(keys), clientMap, serverMap, pathPrefix)
    IN  IF ~Has(serverMap, name)
          THEN <<Difference("missing_on_server", currentPath)>> \o rest
        ELSE
          LET serverItem == serverMap.at[name] IN
            IF ~SameType(clientItem, serverItem)
              THEN <<Difference("type_mismatch", currentPath)>> \o rest
            ELSE IF clientItem.isDirectory /\ serverItem.isDirectory
              THEN compare(ChildrenOrEmpty(clientItem), ChildrenOrEmpty(serverItem),
                           currentPath) \o rest
            ELSE rest

RECURSIVE ServerLoopNoCheck(_, _, _)
\* a server loop that reports every entry of the server
ServerLoopNoCheck(keys, clientMap, pathPrefix) ==
  IF keys = <<>> THEN <<>>
  ELSE <<Difference("missing_on_client", Append(pathPrefix, Head(keys)))>>
       \o ServerLoopNoCheck(Tail(keys), clientMap, pathPrefix)

RECURSIVE ServerLoop(_, _, _)
\* for (const [name, serverItem] of serverMap): what its turns push
ServerLoop(keys, clientMap, pathPrefix) ==
  IF keys = <<>> THEN <<>>
  ELSE LET rest == ServerLoop(Tail(keys), clientMap, pathPrefix) IN
         IF ~Has(clientMap, Head(keys))
           THEN <<Difference("missing_on_client", Append(pathPrefix, Head(keys)))>> \o rest
           ELSE rest

\* compare(clientItems, serverItems, pathPrefix): what one call, the calls it
\* makes included, pushes onto differences
compare(clientItems, serverItems, pathPrefix) ==
  LET clientMap == NewMap(clientItems)
      serverMap == NewMap(serverItems)
  IN  ClientLoop(clientMap.keys, clientMap, serverMap, pathPrefix)
      \o ServerLoop(serverMap.keys, clientMap, pathPrefix)

\* a comparison that walks the client side only
compareStructuresClientOnly(clientStructure, serverStructure) ==
  LET differences == SelectSeq(compare(clientStructure, serverStructure, <<>>),
                               LAMBDA d : d.type # "missing_on_client")
  IN  [isMatch |-> Len(differences) = 0, differences |-> differences]

compareStructures(clientStructure, serverStructure) ==
  LET differences == compare(clientStructure, serverStructure, <<>>)
  IN  [isMatch |-> Len(differences) = 0, differences |-> differences]

\* sibling names are unique at every level: what readdir yields, and what a
\* folder selection yields
RECURSIVE IsTree(_)
IsTree(items) ==
  /\ \A i, j \in 1..Len(items) : items[i].name = items[j].name => i = j
  /\ \A i \in 1..Len(items) : IsTree(items[i].children)

SeqsUpTo(S, n) == UNION {[1..k -> S] : k \in 0..n}

\* the structures a request body can hold: any array, sibling names repeated
\* or not, a directory with or without children. Two shapes: up to MaxItems
\* items whose directories hold at most an item named "a", and one directory
\* that holds MaxItems items
ClientLeaves(N) == {CmpFile(n) : n \in N} \cup {CmpDirBare(n) : n \in N}

ClientItems ==
  ClientLeaves(Names)
    \cup {CmpDir(n, ch) : n \in Names, ch \in SeqsUpTo(ClientLeaves({"a"}), MaxItems - 1)}

ClientStructures ==
  SeqsUpTo(ClientItems, MaxItems)
    \cup {<<CmpDir("a", ch)>> : ch \in [1..MaxItems -> ClientLeaves(Names)]}

\* the structures getDirectoryStructure can return, in any order
ServerLeaves(N) == {CmpFile(n) : n \in N} \cup {CmpDir(n, <<>>) : n \in N}

ServerItems ==
  {CmpFile(n) : n \in Names}
    \cup {CmpDir(n, ch) : n \in Names, ch \in SeqsUpTo(ServerLeaves({"a"}), MaxItems - 1)}

ServerStructures ==
  {t \in SeqsUpTo(ServerItems, MaxItems)
         \cup {<<CmpDir("a", ch)>> : ch \in [1..MaxItems -> ServerLeaves(Names)]} : IsTree(t)}

\* the places of a structure: the indexes that lead to an item
RECURSIVE IndexPaths(_)
IndexPaths(items) ==
  UNION {{<<i>>} \cup {<<i>> \o q : q \in IndexPaths(items[i].children)} : i \in 1..Len(items)}

RECURSIVE NodeAt(_, _)
NodeAt(items, ip) ==
  IF Len(ip) = 1 THEN items[ip[1]] ELSE NodeAt(items[ip[1]].children, Tail(ip))

RECURSIVE ReplaceAt(_, _, _)
ReplaceAt(items, ip, item) ==
  IF Len(ip) = 1 THEN [items EXCEPT ![ip[1]] = item]
  ELSE [items EXCEPT ![ip[1]] =
          [items[ip[1]] EXCEPT !.children = ReplaceAt(items[ip[1]].children, Tail(ip), item)]]

\* the names on the way to a place: its path
RECURSIVE NamePath(_, _)
NamePath(items, ip) ==
  IF ip = <<>> THEN <<>>
  ELSE <<items[ip[1]].name>> \o NamePath(items[ip[1]].children, Tail(ip))

\* the sequence of siblings at a level: the top one, or the children of an item
LevelAt(items, ip) == IF ip = <<>> THEN items ELSE NodeAt(items, ip).children

WithLevel(items, ip, level) ==
  IF ip = <<>> THEN level
  ELSE ReplaceAt(items, ip, [NodeAt(items, ip) EXCEPT !.children = level])

\* siblings i and i + 1 change places
SwapAt(level, i) ==
  [k \in 1..Len(level) |-> IF k = i THEN level[i + 1] ELSE IF k = i + 1 THEN level[i] ELSE level[k]]


\* ------------------------------------------------------------ the applier
VARIABLES
  fs,                \* the real filesystem: existing absolute path -> kind
  activeTmpFolders,  \* Map: root path -> its tracked backup path
  clock,             \* Date.now()
  pc,                \* where the request in flight stands ("idle": none,
                     \* "done": answered, the handler about to return)
  req,               \* req.body of the request in flight: absolutePath, clone and
                     \* the length of changeLog; its entries are inputs drawn
                     \* when the loop of applyChanges reads them
  idx,               \* position of the replay loop in req.changeLog
  tmpPath,           \* the handler's local tmpPath (<<>>: null)
  res,               \* the response sent
  preFs,             \* history: the filesystem when the request arrived
  preMap,            \* history: activeTmpFolders when the request arrived
  executed,          \* history: indices of the instructions run, in order
  failedAt,          \* history: index of the instruction that threw (0: none)
  missingDeletes,    \* history: indices of the deletes whose target was absent
  mutated,           \* history: the replay has changed the tree under the root
  backupState,       \* history: "none", "made" or "failed" (the backup step)
  restoreState,      \* history: "none", "root", "copy", "done" or "failed"
  lastOp,            \* history: the request in flight, "apply" or "remove"
  prevRemoved,       \* history: the root whose backup the request before this
                     \* one removed with success (<<>>: none)
  applies,           \* history: apply requests so far
  removes,           \* history: remove-backup requests so far
  other,             \* a second apply call with clone, in flight along with the
                     \* first: where it stands, its tmpPath, the length of its
                     \* changeLog and its place in it; history: early, it changed
                     \* the tree under the root before the first call's backup
                     \* was made, and late, it took a step after the first
                     \* call's restore had removed the root
  cmp,               \* a call of compareStructures: its two arguments, what it
                     \* returned, and, when the arguments are a variation of
                     \* those of an earlier call, the variation and what that
                     \* call returned
  chg,               \* a call of hasStructureChanged: its two arguments, what
                     \* it returned, and, when the arguments are a variation of
                     \* those of an earlier call, what that call returned
  folderStructure,   \* state.folderStructure: the tree being edited
  originalStructure, \* state.originalStructure
  isValidated,       \* state.isValidated
  changeLog,         \* state.changeLog
  rendered,          \* the DOM under elements.folderTree: the tree renderTree
                     \* last drew, and whether it drew it with edit handlers
  modal,             \* the modal overlay: the dialog shown ("none": hidden),
                     \* whether the close button shows, what its buttons hold
  resetOnClose,      \* resetAfterSubmit is registered, once, on modalCloseBtn
  hasPath,           \* elements.absolutePathInput holds a non-blank value
  submitBtn,         \* elements.submitChangesBtn: "hidden", "disabled", "enabled"
  pending,           \* the request awaited: "none", "validate", "apply",
                     \* "applyClone" or "removeBackup"
  appliedLen,        \* history: how many leading entries of changeLog an apply
                     \* that succeeded has already replayed
  submits,           \* history: apply requests sent by the page so far
  edits              \* history: edit gestures (drops, renames, delete clicks) so far

\* what a request in flight never changes
frame == <<clock, req, tmpPath, preFs, preMap, lastOp, prevRemoved, applies, removes, other, cmp, chg>>

serverVars == <<fs, activeTmpFolders, pc, idx, res, executed, failedAt,
                missingDeletes, mutated, backupState, restoreState, frame>>

clientVars == <<folderStructure, originalStructure, isValidated, changeLog, rendered,
                modal, resetOnClose, hasPath, submitBtn, pending, appliedLen, submits,
                edits>>

vars == <<serverVars, clientVars>>

RootPath == <<"root">>

NoPath == <<>>

\* the name of the backup made at time t: `.${folderName}_backup_${Date.now()}`
BackupName(folderName, t) == "." \o folderName \o "_backup_" \o ToString(t)

getTmpFolderPath(originalPath, now) ==
  Append(Dirname(originalPath), BackupName(Basename(originalPath), now))

MapSet(m, k, v) == [x \in DOMAIN m \cup {k} |-> IF x = k THEN v ELSE m[x]]

MapDelete(m, k) == [x \in DOMAIN m \ {k} |-> m[x]]

MapHas(m, k) == k \in DOMAIN m

Response(status, kind, path) == [status |-> status, kind |-> kind, tmpPath |-> path]

\* a delete branch without its try/catch: a missing target throws
deleteEntryThrows(f, deletePath) ==
  [ok |-> Exists(f, deletePath), fs |-> RemoveExisting(f, deletePath)]

\* the delete branch: stat, removeDirectory or unlink, every error caught
deleteEntry(f, deletePath) == [ok |-> TRUE, fs |-> RemoveExisting(f, deletePath)]

\* the segments path.join finds in a name: a name typed with separators is
\* a path of several segments
Segments(n) ==
  IF n = "../x" THEN <<"..", "x">>
  ELSE IF n = "../out" THEN <<"..", "out">>
  ELSE <<n>>

\* one instruction of applyChanges: [ok |-> it did not throw, fs |-> the
\* filesystem it leaves]
applyChange(f, basePath, change) ==
  IF change.type = "move" THEN
    LET fromPath == Join(basePath, change.from)
        toPath   == Join(basePath, change.to)
        toDir    == Dirname(toPath)
    IN  IF ~MkdirOk(f, toDir) THEN [ok |-> FALSE, fs |-> f]
        ELSE LET f1 == Mkdirp(f, toDir)
                 f2 == IF change.override THEN RemoveExisting(f1, toPath) ELSE f1
             IN  IF RenameOk(f2, fromPath, toPath)
                   THEN [ok |-> TRUE, fs |-> FsRename(f2, fromPath, toPath)]
                   ELSE [ok |-> FALSE, fs |-> f2]
  ELSE IF change.type = "rename" THEN
    LET oldPath   == Join(basePath, change.path)
        parentDir == Dirname(oldPath)
        newPath   == Join(parentDir, Segments(change.newName))
        f2        == IF change.override THEN RemoveExisting(f, newPath) ELSE f
    IN  IF RenameOk(f2, oldPath, newPath)
          THEN [ok |-> TRUE, fs |-> FsRename(f2, oldPath, newPath)]
          ELSE [ok |-> FALSE, fs |-> f2]
  ELSE IF change.type = "delete" THEN
    deleteEntry(f, Join(basePath, change.path))
  ELSE [ok |-> TRUE, fs |-> f]

\* ---------------------------------------------------------------- inputs
\* relative paths of at most MaxDepth names
RelPaths == UNION {[1..n -> Names] : n \in 1..MaxDepth}

MoveEntries == [type : {"move"}, from : RelPaths, to : RelPaths, override : BOOLEAN]

RenameEntries == [type : {"rename"}, path : RelPaths, newName : Names, override : BOOLEAN]

DeleteEntries == [type : {"delete"}, path : RelPaths]

Entries == MoveEntries \cup RenameEntries \cup DeleteEntries

\* req.body.changeLog: the length of the array; 0 also stands for a missing
\* changeLog, -1 for a value that is no array
LogLengths == (-1)..MaxLog

\* a value of req.body.absolutePath that is no string
NotAString == <<"[object Object]">>

\* req.body.absolutePath: missing, no string, the root, a path that does not
\* exist
AbsolutePaths == {NoPath, NotAString, RootPath, <<"gone">>}

\* the input checks with the access check left out
ValidateInputNoAccess(f, a, n) ==
  IF a = NoPath \/ a = NotAString THEN "path_required"
  ELSE IF n <= 0 THEN "log_required"
  ELSE "ok"

\* the input checks of POST /api/apply-changes: the error they answer with,
\* or "ok"
ValidateInput(f, a, n) ==
  IF a = NoPath \/ a = NotAString THEN "path_required"
  ELSE IF n <= 0 THEN "log_required"
  ELSE IF ~Exists(f, a) THEN "not_accessible"
  ELSE "ok"

\* the real directory before the first request
InitTrees ==
  { [p \in {<<"root">>, <<"root", "a">>} |-> IF p = <<"root">> THEN "dir" ELSE "file"],
    [p \in {<<"root">>, <<"root", "a">>, <<"root", "b">>, <<"root", "b", "a">>} |->
       IF p \in {<<"root">>, <<"root", "b">>} THEN "dir" ELSE "file"],
    [p \in {<<"root">>, <<"root", "a">>, <<"root", "a", "a">>, <<"root", "a", "b">>} |->
       IF p \in {<<"root">>, <<"root", "a">>, <<"root", "a", "a">>} THEN "dir" ELSE "file"] }

\* no call of compareStructures yet
NoCompare == [op |-> "none", client |-> <<>>, server |-> <<>>,
              result |-> [isMatch |-> TRUE, differences |-> <<>>],
              before |-> [isMatch |-> TRUE, differences |-> <<>>],
              from |-> <<>>, to |-> <<>>]

\* no call of hasStructureChanged yet
NoChange == [op |-> "none", original |-> <<>>, current |-> <<>>,
             changed |-> FALSE, before |-> FALSE]

\* no second call
NoOther == [pc |-> "idle", logLen |-> 0, idx |-> 0, tmpPath |-> NoPath,
            early |-> FALSE, late |-> FALSE]

NoRequest == [absolutePath |-> NoPath, logLen |-> 0, clone |-> FALSE]

NoResponse == Response(0, "none", NoPath)

\* the server at rest: no call yet, no backup tracked
ServerAtRest ==
  /\ activeTmpFolders = <<>>
  /\ clock = 0
  /\ pc = "idle"
  /\ req = NoRequest
  /\ idx = 0
  /\ tmpPath = NoPath
  /\ res = NoResponse
  /\ preFs = fs
  /\ preMap = activeTmpFolders
  /\ executed = <<>>
  /\ failedAt = 0
  /\ missingDeletes = {}
  /\ mutated = FALSE
  /\ backupState = "none"
  /\ restoreState = "none"
  /\ lastOp = "none"
  /\ prevRemoved = NoPath
  /\ applies = 0
  /\ removes = 0
  /\ other = NoOther
  /\ cmp = NoCompare
  /\ chg = NoChange

ServerInit ==
  /\ fs \in InitTrees
  /\ ServerAtRest

\* ------------------------------------------------ POST /api/apply-changes
\* the request arrives: input checks, fs.access, getTmpFolderPath
ApplyBegin ==
  /\ pc = "idle"
  /\ applies < MaxApplies
  /\ \E a \in AbsolutePaths, n \in LogLengths, clone \in BOOLEAN :
       /\ req' = [absolutePath |-> a, logLen |-> IF n < 0 THEN 0 ELSE n, clone |-> clone]
       /\ applies' = applies + 1
       /\ lastOp' = "apply"
       /\ clock' = clock + 1
       /\ idx' = 1
       /\ UNCHANGED <<fs, activeTmpFolders, preFs, preMap, executed, failedAt,
                      missingDeletes, mutated, backupState, restoreState, prevRemoved, removes,
                      other, cmp, chg, clientVars>>
       /\ IF ValidateInput(fs, a, n) # "ok"
            THEN /\ res' = Response(400, ValidateInput(fs, a, n), NoPath)
                 /\ pc' = "done" /\ tmpPath' = NoPath
          ELSE /\ res' = NoResponse
               /\ tmpPath' = IF clone THEN getTmpFolderPath(a, clock') ELSE NoPath
               /\ pc' = IF clone THEN "backup" ELSE "replay"

\* a backup that holds the tree the request found at rest, whatever has been
\* written to the root since
ApplyBackupFromArrival ==
  /\ pc = "backup"
  /\ LET New == {tmpPath \o SubSeq(q, Len(req.absolutePath) + 1, Len(q)) :
                   q \in Under(preFs, req.absolutePath)}
     IN  fs' = [p \in DOMAIN fs \cup New |->
                  IF p \in New
                    THEN preFs[req.absolutePath \o SubSeq(p, Len(tmpPath) + 1, Len(p))]
                    ELSE fs[p]]
  /\ pc' = "replay" /\ res' = res /\ backupState' = "made"
  /\ UNCHANGED <<activeTmpFolders, idx, executed, failedAt, missingDeletes, mutated,
                 restoreState, frame, clientVars>>

\* a backup step whose catch does not return: the replay starts all the same
ApplyBackupNoReturn ==
  /\ pc = "backup"
  /\ \E k \in 0..CopySteps(fs, req.absolutePath) :
       /\ fs' = CopyPrefix(fs, req.absolutePath, tmpPath, k)
       /\ pc' = "replay" /\ res' = res
       /\ backupState' = IF k = CopySteps(fs, req.absolutePath) THEN "made" ELSE "failed"
  /\ UNCHANGED <<activeTmpFolders, idx, executed, failedAt, missingDeletes, mutated,
                 restoreState, frame, clientVars>>

\* copyDirectory(absolutePath, tmpPath) ends: the whole copy, or a throw
\* after k of its steps
ApplyBackup ==
  /\ pc = "backup"
  /\ IF ~Exists(fs, req.absolutePath)
       THEN \* fs.mkdir(dest) done, fs.readdir(src) throws
            /\ fs' = Mkdirp(fs, tmpPath)
            /\ pc' = "done" /\ backupState' = "failed"
            /\ res' = Response(500, "backup_failed", NoPath)
       ELSE \E k \in 0..CopySteps(fs, req.absolutePath) :
              /\ fs' = CopyPrefix(fs, req.absolutePath, tmpPath, k)
              /\ IF k = CopySteps(fs, req.absolutePath)
                   THEN pc' = "replay" /\ res' = res /\ backupState' = "made"
                   ELSE /\ pc' = "done" /\ backupState' = "failed"
                        /\ res' = Response(500, "backup_failed", NoPath)
  /\ UNCHANGED <<activeTmpFolders, idx, executed, failedAt, missingDeletes, mutated,
                 restoreState, frame, clientVars>>

\* a success branch that keeps the association a root already has
ApplySucceededKeepsFirst ==
  IF req.clone /\ tmpPath # NoPath
    THEN /\ activeTmpFolders' = IF MapHas(activeTmpFolders, req.absolutePath)
                                   THEN activeTmpFolders
                                   ELSE MapSet(activeTmpFolders, req.absolutePath, tmpPath)
         /\ res' = Response(200, "applied_backup", tmpPath)
    ELSE /\ activeTmpFolders' = activeTmpFolders
         /\ res' = Response(200, "applied", NoPath)

\* a success answer that forgets activeTmpFolders.set
ApplySucceededUntracked ==
  /\ activeTmpFolders' = activeTmpFolders
  /\ res' = IF req.clone /\ tmpPath # NoPath
              THEN Response(200, "applied_backup", tmpPath)
              ELSE Response(200, "applied", NoPath)

\* what the handler does once applyChanges has returned: track the backup, answer
ApplySucceeded ==
  IF req.clone /\ tmpPath # NoPath
    THEN /\ activeTmpFolders' = MapSet(activeTmpFolders, req.absolutePath, tmpPath)
         /\ res' = Response(200, "applied_backup", tmpPath)
    ELSE /\ activeTmpFolders' = activeTmpFolders
         /\ res' = Response(200, "applied", NoPath)

\* the delete whose target stat does not find
MissingDelete(f, basePath, change) ==
  change.type = "delete" /\ ~Exists(f, Join(basePath, change.path))

\* a loop that catches the throw of an instruction and goes on with the next
ReplayThrewSwallowed ==
  /\ failedAt' = idx
  /\ idx' = idx + 1
  /\ IF idx = req.logLen
       THEN pc' = "done" /\ ApplySucceeded
       ELSE pc' = "replay" /\ UNCHANGED <<activeTmpFolders, res>>

\* a catch that neither restores nor answers: the call is left where it threw
ReplayThrewAbandoned ==
  /\ failedAt' = idx
  /\ idx' = idx
  /\ activeTmpFolders' = activeTmpFolders
  /\ pc' = "abandoned" /\ res' = res

\* an instruction threw: applyChanges rejects, the handler's catch takes over
ReplayThrew ==
  /\ failedAt' = idx
  /\ idx' = idx
  /\ activeTmpFolders' = activeTmpFolders
  /\ IF req.clone /\ tmpPath # NoPath
       THEN pc' = "restoreRoot" /\ res' = res
       ELSE pc' = "done" /\ res' = Response(500, "apply_failed", NoPath)

\* one turn of the loop of applyChanges, on the entry change = changeLog[idx]
ReplayTurn(change) ==
  /\ LET r == applyChange(fs, req.absolutePath, change) IN
       /\ fs' = r.fs
       /\ executed' = Append(executed, idx)
       /\ missingDeletes' = IF MissingDelete(fs, req.absolutePath, change)
                              THEN missingDeletes \cup {idx} ELSE missingDeletes
       /\ mutated' = (mutated \/ Tree(r.fs, req.absolutePath) # Tree(preFs, req.absolutePath))
       /\ IF r.ok
            THEN /\ failedAt' = failedAt
                 /\ idx' = idx + 1
                 /\ IF idx = req.logLen
                      THEN pc' = "done" /\ ApplySucceeded
                      ELSE pc' = "replay" /\ UNCHANGED <<activeTmpFolders, res>>
            ELSE ReplayThrew
  /\ UNCHANGED <<backupState, restoreState, frame, clientVars>>

\* the loop of applyChanges on a change log of the entries the page records
ApplyReplay == pc = "replay" /\ \E change \in Entries : ReplayTurn(change)

\* a restore that copies the backup back without removing the root first
RestoreRemoveRootSkipped ==
  /\ pc = "restoreRoot"
  /\ fs' = fs
  /\ pc' = "restoreCopy" /\ res' = res /\ restoreState' = "root"
  /\ UNCHANGED <<activeTmpFolders, idx, executed, failedAt, missingDeletes, mutated,
                 backupState, frame, clientVars>>

\* restore, first step: removeDirectory(absolutePath)
RestoreRemoveRoot ==
  /\ pc = "restoreRoot"
  /\ \E k \in 0..Cardinality(Under(fs, req.absolutePath)) :
       /\ fs' = RemovePrefix(fs, req.absolutePath, k)
       /\ IF k = Cardinality(Under(fs, req.absolutePath))
            THEN pc' = "restoreCopy" /\ res' = res /\ restoreState' = "root"
            ELSE /\ pc' = "done" /\ restoreState' = "failed"
                 /\ res' = Response(500, "restore_failed", tmpPath)
  /\ UNCHANGED <<activeTmpFolders, idx, executed, failedAt, missingDeletes, mutated,
                 backupState, frame, clientVars>>

\* a restore copy that removes the backup when the copy throws
RestoreCopyCleansUp ==
  /\ pc = "restoreCopy"
  /\ \E k \in 0..CopySteps(fs, tmpPath) :
       /\ IF k = CopySteps(fs, tmpPath)
            THEN /\ fs' = CopyPrefix(fs, tmpPath, req.absolutePath, k)
                 /\ pc' = "restoreTmp" /\ res' = res /\ restoreState' = "copy"
            ELSE /\ fs' = RemoveTree(CopyPrefix(fs, tmpPath, req.absolutePath, k), tmpPath)
                 /\ pc' = "done" /\ restoreState' = "failed"
                 /\ res' = Response(500, "restore_failed", tmpPath)
  /\ UNCHANGED <<activeTmpFolders, idx, executed, failedAt, missingDeletes, mutated,
                 backupState, frame, clientVars>>

\* restore, second step: copyDirectory(tmpPath, absolutePath)
RestoreCopy ==
  /\ pc = "restoreCopy"
  /\ IF ~Exists(fs, tmpPath)
       THEN \* fs.mkdir(dest) done, fs.readdir(src) throws
            /\ fs' = Mkdirp(fs, req.absolutePath)
            /\ pc' = "done" /\ restoreState' = "failed"
            /\ res' = Response(500, "restore_failed", tmpPath)
       ELSE \E k \in 0..CopySteps(fs, tmpPath) :
              /\ fs' = CopyPrefix(fs, tmpPath, req.absolutePath, k)
              /\ IF k = CopySteps(fs, tmpPath)
                   THEN pc' = "restoreTmp" /\ res' = res /\ restoreState' = "copy"
                   ELSE /\ pc' = "done" /\ restoreState' = "failed"
                        /\ res' = Response(500, "restore_failed", tmpPath)
  /\ UNCHANGED <<activeTmpFolders, idx, executed, failedAt, missingDeletes, mutated,
                 backupState, frame, clientVars>>

\* a restore that keeps the backup after copying it back
RestoreRemoveTmpKept ==
  /\ pc = "restoreTmp"
  /\ fs' = fs
  /\ restoreState' = "done"
  /\ res' = Response(500, "apply_failed", NoPath)
  /\ pc' = "done"
  /\ UNCHANGED <<activeTmpFolders, idx, executed, failedAt, missingDeletes, mutated,
                 backupState, frame, clientVars>>

\* restore, third step: removeDirectory(tmpPath), then the 500 answer
RestoreRemoveTmp ==
  /\ pc = "restoreTmp"
  /\ \E k \in 0..Cardinality(Under(fs, tmpPath)) :
       /\ fs' = RemovePrefix(fs, tmpPath, k)
       /\ IF k = Cardinality(Under(fs, tmpPath))
            THEN /\ restoreState' = "done"
                 /\ res' = Response(500, "apply_failed", NoPath)
            ELSE /\ restoreState' = "failed"
                 /\ res' = Response(500, "restore_failed", tmpPath)
  /\ pc' = "done"
  /\ UNCHANGED <<activeTmpFolders, idx, executed, failedAt, missingDeletes, mutated,
                 backupState, frame, clientVars>>

\* ------------------------------------------------ POST /api/remove-backup
\* a success branch that leaves the entry in activeTmpFolders
BackupRemovedNotForgotten(a) ==
  /\ res' = Response(200, "removed", NoPath)
  /\ activeTmpFolders' = activeTmpFolders

\* removeDirectory(tmpPath) returned: activeTmpFolders.delete, the 200 answer
BackupRemoved(a) ==
  /\ res' = Response(200, "removed", NoPath)
  /\ activeTmpFolders' = MapDelete(activeTmpFolders, a)

\* a catch of fs.access(tmpPath) that leaves the entry in activeTmpFolders
BackupGoneNotForgotten(a) ==
  /\ res' = Response(400, "backup_gone", NoPath)
  /\ activeTmpFolders' = activeTmpFolders
  /\ fs' = fs

\* fs.access(tmpPath) threw: activeTmpFolders.delete, the 400 answer
\* 'Backup folder no longer exists'
BackupGone(a) ==
  /\ res' = Response(400, "backup_gone", NoPath)
  /\ activeTmpFolders' = MapDelete(activeTmpFolders, a)
  /\ fs' = fs

RemoveBackup ==
  /\ pc = "idle"
  /\ removes < MaxRemoves
  /\ \E a \in AbsolutePaths :
       /\ req' = [absolutePath |-> a, logLen |-> 0, clone |-> FALSE]
       /\ removes' = removes + 1
       /\ lastOp' = "remove"
       /\ pc' = "done"
       /\ UNCHANGED <<clock, idx, tmpPath, preFs, preMap, executed, failedAt,
                      missingDeletes, mutated, backupState, restoreState, prevRemoved, applies,
                      other, cmp, chg, clientVars>>
       /\ IF a = NoPath
            THEN /\ res' = Response(400, "path_required", NoPath)
                 /\ UNCHANGED <<fs, activeTmpFolders>>
          ELSE IF ~MapHas(activeTmpFolders, a)
            THEN /\ res' = Response(400, "no_backup", NoPath)
                 /\ UNCHANGED <<fs, activeTmpFolders>>
          ELSE IF ~Exists(fs, activeTmpFolders[a])
            THEN BackupGone(a)
          ELSE \E k \in 0..Cardinality(Under(fs, activeTmpFolders[a])) :
                 /\ fs' = RemovePrefix(fs, activeTmpFolders[a], k)
                 /\ IF k = Cardinality(Under(fs, activeTmpFolders[a]))
                      THEN BackupRemoved(a)
                      ELSE /\ res' = Response(500, "remove_failed", NoPath)
                           /\ activeTmpFolders' = activeTmpFolders

\* the handler returns; the server waits for the next request
HandlerReturn ==
  /\ pc = "done"
  /\ pc' = "idle"
  /\ req' = NoRequest
  /\ idx' = 0
  /\ tmpPath' = NoPath
  /\ res' = NoResponse
  /\ preFs' = fs
  /\ preMap' = activeTmpFolders
  /\ executed' = <<>>
  /\ failedAt' = 0
  /\ missingDeletes' = {}
  /\ mutated' = FALSE
  /\ backupState' = "none"
  /\ restoreState' = "none"
  /\ lastOp' = "none"
  /\ prevRemoved' = IF lastOp = "remove" /\ res.kind = "removed"
                       THEN req.absolutePath ELSE NoPath
  /\ UNCHANGED <<fs, activeTmpFolders, clock, applies, removes, other, cmp, chg, clientVars>>

\* ------------------------------------- a second apply call, in flight too
\* The handler awaits every filesystem call, so between two of its steps the
\* event loop runs the steps of another request. The second call is the same
\* handler (src/server/index.js 340-434) on its own locals, kept in other; it
\* asks for a backup of the same root. A copy or a removal is one step.

\* what the first call keeps to itself
callVars == <<pc, req, idx, tmpPath, res, preFs, preMap, executed, failedAt,
              missingDeletes, mutated, backupState, restoreState, lastOp,
              prevRemoved, applies, removes, cmp, chg>>

\* the second call after a step that leaves the filesystem f2
OtherAt(newPc, f2) ==
  [other EXCEPT !.pc = newPc,
                !.early = @ \/ (backupState = "none" /\ restoreState = "none"
                                /\ Tree(f2, RootPath) # Tree(fs, RootPath)),
                !.late = @ \/ restoreState # "none"]

\* the second request arrives, in the same millisecond as the clock shows or
\* in the next; its input is checked and its tmpPath computed
OtherBegin ==
  /\ other.pc = "idle"
  /\ \E n \in 1..MaxOtherLog, d \in {0, 1} :
       /\ clock' = clock + d
       /\ other' = IF ValidateInput(fs, RootPath, n) # "ok"
                     THEN [OtherAt("done", fs) EXCEPT !.logLen = n]
                     ELSE [OtherAt("backup", fs) EXCEPT
                             !.logLen = n, !.idx = 1,
                             !.tmpPath = getTmpFolderPath(RootPath, clock')]
  /\ UNCHANGED <<fs, activeTmpFolders, callVars, clientVars>>

\* its copyDirectory(absolutePath, tmpPath)
OtherBackup ==
  /\ other.pc = "backup"
  /\ IF ~Exists(fs, RootPath)
       THEN /\ fs' = Mkdirp(fs, other.tmpPath)
            /\ other' = OtherAt("done", fs')
       ELSE \E k \in 0..CopySteps(fs, RootPath) :
              /\ fs' = CopyPrefix(fs, RootPath, other.tmpPath, k)
              /\ other' = OtherAt(IF k = CopySteps(fs, RootPath) THEN "replay" ELSE "done", fs')
  /\ UNCHANGED <<activeTmpFolders, clock, callVars, clientVars>>

\* one turn of its loop of applyChanges
OtherReplay ==
  /\ other.pc = "replay"
  /\ \E change \in Entries :
     LET r == applyChange(fs, RootPath, change) IN
       /\ fs' = r.fs
       /\ IF r.ok
            THEN IF other.idx = other.logLen
                   THEN /\ other' = [OtherAt("done", fs') EXCEPT !.idx = @ + 1]
                        /\ activeTmpFolders' = MapSet(activeTmpFolders, RootPath, other.tmpPath)
                   ELSE /\ other' = [OtherAt("replay", fs') EXCEPT !.idx = @ + 1]
                        /\ activeTmpFolders' = activeTmpFolders
            ELSE /\ other' = OtherAt("restoreRoot", fs')
                 /\ activeTmpFolders' = activeTmpFolders
  /\ UNCHANGED <<clock, callVars, clientVars>>

\* its restore, first step: removeDirectory(absolutePath)
OtherRestoreRemoveRoot ==
  /\ other.pc = "restoreRoot"
  /\ \E k \in 0..Cardinality(Under(fs, RootPath)) :
       /\ fs' = RemovePrefix(fs, RootPath, k)
       /\ other' = OtherAt(IF k = Cardinality(Under(fs, RootPath))
                             THEN "restoreCopy" ELSE "done", fs')
  /\ UNCHANGED <<activeTmpFolders, clock, callVars, clientVars>>

\* its restore, second step: copyDirectory(tmpPath, absolutePath)
OtherRestoreCopy ==
  /\ other.pc = "restoreCopy"
  /\ IF ~Exists(fs, other.tmpPath)
       THEN /\ fs' = Mkdirp(fs, RootPath)
            /\ other' = OtherAt("done", fs')
       ELSE \E k \in 0..CopySteps(fs, other.tmpPath) :
              /\ fs' = CopyPrefix(fs, other.tmpPath, RootPath, k)
              /\ other' = OtherAt(IF k = CopySteps(fs, other.tmpPath)
                                    THEN "restoreTmp" ELSE "done", fs')
  /\ UNCHANGED <<activeTmpFolders, clock, callVars, clientVars>>

\* its restore, third step: removeDirectory(tmpPath)
OtherRestoreRemoveTmp ==
  /\ other.pc = "restoreTmp"
  /\ \E k \in 0..Cardinality(Under(fs, other.tmpPath)) :
       /\ fs' = RemovePrefix(fs, other.tmpPath, k)
       /\ other' = OtherAt("done", fs')
  /\ UNCHANGED <<activeTmpFolders, clock, callVars, clientVars>>

\* ------------------------------------------------- POST /api/validate
\* what a call of compareStructures leaves alone
compareFrame == <<fs, activeTmpFolders, pc, idx, res, executed, failedAt, missingDeletes,
                  mutated, backupState, restoreState, clock, req, tmpPath, preFs, preMap,
                  lastOp, prevRemoved, applies, removes, other, chg, clientVars>>

Compared(op, client, server, from, to) ==
  [op |-> op, client |-> client, server |-> server,
   result |-> compareStructures(client, server),
   before |-> cmp.result, from |-> from, to |-> to]

\* compareStructures(folderStructure, serverStructure) on the structure of a
\* request body and the structure read from the disk
Validate ==
  /\ cmp.op = "none"
  /\ \E client \in ClientStructures, server \in ServerStructures :
       cmp' = Compared("validate", client, server, <<>>, <<>>)
  /\ UNCHANGED compareFrame

Side(side) == IF side = "client" THEN cmp.client ELSE cmp.server

\* the call again with one side changed
ComparedWith(op, side, structure) ==
  IF side = "client" THEN Compared(op, structure, cmp.server, <<>>, <<>>)
  ELSE Compared(op, cmp.client, structure, <<>>, <<>>)

\* the call again, two neighbouring siblings of one level of one side having
\* changed places
ValidatePermuted ==
  /\ cmp.op = "validate"
  /\ \E side \in {"client", "server"} :
       \E ip \in {<<>>} \cup IndexPaths(Side(side)) :
         \E i \in 1..(Len(LevelAt(Side(side), ip)) - 1) :
           cmp' = ComparedWith("permute", side,
                               WithLevel(Side(side), ip, SwapAt(LevelAt(Side(side), ip), i)))
  /\ UNCHANGED compareFrame

\* the call again, the size or the lastModified of one item of one side
\* being another
ValidateTouched ==
  /\ cmp.op = "validate"
  /\ \E side \in {"client", "server"} :
       \E ip \in IndexPaths(Side(side)), field \in {"size", "lastModified"} :
         cmp' = ComparedWith("touch", side,
                             ReplaceAt(Side(side), ip,
                                       [NodeAt(Side(side), ip) EXCEPT ![field] = @ + 1]))
  /\ UNCHANGED compareFrame

\* the call again on a tree and the same tree with one leaf, a file or an
\* empty directory, under a name none of its siblings has
ValidateRenamedLeaf ==
  /\ cmp.op = "validate"
  /\ cmp.server = cmp.client
  /\ \E ip \in IndexPaths(cmp.client), n \in Names :
       LET leaf == NodeAt(cmp.client, ip) IN
         /\ ChildrenOrEmpty(leaf) = <<>>
         /\ \A sibling \in Range(LevelAt(cmp.client, Front(ip))) : sibling.name # n
         /\ cmp' = Compared("rename", cmp.client,
                            ReplaceAt(cmp.client, ip, [leaf EXCEPT !.name = n]),
                            NamePath(cmp.client, ip),
                            Append(Front(NamePath(cmp.client, ip)), n))
  /\ UNCHANGED compareFrame

\* ------------------------------------------------- hasStructureChanged
\* what a call of hasStructureChanged leaves alone
changeFrame == <<fs, activeTmpFolders, pc, idx, res, executed, failedAt, missingDeletes,
                 mutated, backupState, restoreState, clock, req, tmpPath, preFs, preMap,
                 lastOp, prevRemoved, applies, removes, other, cmp, clientVars>>

Detected(op, original, current) ==
  [op |-> op, original |-> original, current |-> current,
   changed |-> hasStructureChanged(original, current), before |-> chg.changed]

\* hasStructureChanged(state.originalStructure, state.folderStructure) on two
\* trees of names, types and nesting, their siblings in any order
DetectChange ==
  /\ chg.op = "none"
  /\ \E original \in ServerStructures, current \in ServerStructures :
       chg' = Detected("detect", original, current)
  /\ UNCHANGED changeFrame

ChangeSide(side) == IF side = "original" THEN chg.original ELSE chg.current

\* the call again with one side changed
DetectedWith(op, side, structure) ==
  IF side = "original" THEN Detected(op, structure, chg.current)
  ELSE Detected(op, chg.original, structure)

\* the call again, two neighbouring siblings of one level of one side having
\* changed places
DetectPermuted ==
  /\ chg.op = "detect"
  /\ \E side \in {"original", "current"} :
       \E ip \in {<<>>} \cup IndexPaths(ChangeSide(side)) :
         \E i \in 1..(Len(LevelAt(ChangeSide(side), ip)) - 1) :
           chg' = DetectedWith("permute", side,
                               WithLevel(ChangeSide(side), ip,
                                         SwapAt(LevelAt(ChangeSide(side), ip), i)))
  /\ UNCHANGED changeFrame

\* the call again, the size or the lastModified of one item of one side
\* being another
DetectTouched ==
  /\ chg.op = "detect"
  /\ \E side \in {"original", "current"} :
       \E ip \in IndexPaths(ChangeSide(side)), field \in {"size", "lastModified"} :
         chg' = DetectedWith("touch", side,
                             ReplaceAt(ChangeSide(side), ip,
                                       [NodeAt(ChangeSide(side), ip) EXCEPT ![field] = @ + 1]))
  /\ UNCHANGED changeFrame

\* ------------------------------------------------------- the editing page
ClientNames == {"a", "b", "c"}

\* the snapshots a folder selection can yield: what buildFolderStructure
\* builds, sorted, every directory with the size of its files
ClientTrees ==
  { <<[Dir("a", <<File("a", 1), File("b", 2)>>) EXCEPT !.size = 3], File("b", 4)>>,
    <<[Dir("a", <<[Dir("a", <<File("b", 1)>>) EXCEPT !.size = 1]>>) EXCEPT !.size = 1],
      [Dir("b", <<File("a", 2)>>) EXCEPT !.size = 2]>> }

NoTree == <<>>

\* showModal(content, showClose): kind names the content, a and b what the
\* listeners of its buttons closed over
ShowModal(kind, showClose, a, b) == [kind |-> kind, showClose |-> showClose, a |-> a, b |-> b]

\* hideModal(): the overlay is not displayed
Hidden == ShowModal("none", FALSE, <<>>, <<>>)

ModalOpen == modal.kind # "none"

\* the page under the overlay takes clicks and drops
PageActive == ~ModalOpen /\ pending = "none"

showError == ShowModal("error", TRUE, <<>>, <<>>)

\* renderTree that draws the edit controls whatever state.isValidated is
renderTreeWithControls(items, validated) == [tree |-> items, editable |-> TRUE]

\* renderTree(state.folderStructure, elements.folderTree)
renderTree(items, validated) == [tree |-> items, editable |-> validated]

\* updateSubmitButtonState
updateSubmitButtonState(validated, original, current) ==
  IF ~validated THEN "hidden"
  ELSE IF hasStructureChanged(original, current) THEN "enabled" ELSE "disabled"

\* the drop zones renderTree leaves in the page: the root's, and the zone of
\* each directory drawn without children (the recursive call that draws the
\* children of a directory empties the container that held its zone)
DropZones(items) == {<<>>} \cup {q \in DirPaths(items) : ItemOf(items, q).children = <<>>}

\* item.children, through the object the header's listener closed over: the
\* live item while the path still resolves, else the detached one last drawn
TargetChildren(itemPath) ==
  LET loc == findItemLocation(folderStructure, itemPath) IN
  IF loc # <<>> THEN ItemAt(folderStructure, loc).children
  ELSE ItemOf(rendered.tree, itemPath).children

\* targetItem?.children || []
CurrentTargetArray(targetPath) ==
  IF targetPath = <<>> THEN folderStructure
  ELSE LET loc == findItemByPath(folderStructure, targetPath) IN
       IF loc = <<>> THEN <<>> ELSE ItemAt(folderStructure, loc).children

\* an edit operation has run on the state
Edited(r) ==
  /\ folderStructure' = r.tree
  /\ changeLog' = r.log
  /\ IF r.refreshed
       THEN /\ rendered' = renderTree(r.tree, isValidated)
            /\ submitBtn' = updateSubmitButtonState(isValidated, originalStructure, r.tree)
       ELSE UNCHANGED <<rendered, submitBtn>>

ClientInit ==
  /\ folderStructure = NoTree
  /\ originalStructure = NoTree
  /\ isValidated = FALSE
  /\ changeLog = <<>>
  /\ rendered = renderTree(NoTree, FALSE)
  /\ modal = Hidden
  /\ resetOnClose = FALSE
  /\ hasPath = FALSE
  /\ submitBtn = "hidden"
  /\ pending = "none"
  /\ appliedLen = 0
  /\ submits = 0
  /\ edits = 0

\* the user picks a folder (or none) in the file input
handleFolderSelect ==
  /\ PageActive /\ ~isValidated
  /\ \E t \in ClientTrees \cup {NoTree} :
       /\ folderStructure' = t
       /\ rendered' = renderTree(t, isValidated)
  /\ UNCHANGED <<originalStructure, isValidated, changeLog, modal, resetOnClose, hasPath,
                 submitBtn, pending, appliedLen, submits, edits, serverVars>>

\* the user types in, or empties, the absolute path input
PathInput ==
  /\ PageActive /\ ~isValidated
  /\ hasPath' = ~hasPath
  /\ UNCHANGED <<folderStructure, originalStructure, isValidated, changeLog, rendered, modal,
                 resetOnClose, submitBtn, pending, appliedLen, submits, edits, serverVars>>

\* click on Start Changes, enabled by updateButtonState: the validation
\* request leaves
handleSubmit ==
  /\ PageActive /\ ~isValidated
  /\ hasPath /\ folderStructure # NoTree
  /\ modal' = ShowModal("loading", FALSE, <<>>, <<>>)
  /\ pending' = "validate"
  /\ UNCHANGED <<folderStructure, originalStructure, isValidated, changeLog, rendered,
                 resetOnClose, hasPath, submitBtn, appliedLen, submits, edits, serverVars>>

\* the answer of /api/validate arrives
ValidateResponse ==
  /\ pending = "validate"
  /\ pending' = "none"
  /\ \E ok \in BOOLEAN :
       IF ok
         THEN /\ originalStructure' = folderStructure
              /\ isValidated' = TRUE
              /\ changeLog' = <<>>
              /\ appliedLen' = 0
              /\ rendered' = renderTree(folderStructure, TRUE)
              /\ submitBtn' = updateSubmitButtonState(TRUE, folderStructure, folderStructure)
              /\ modal' = ShowModal("validated", TRUE, <<>>, <<>>)
         ELSE /\ modal' = showError
              /\ UNCHANGED <<originalStructure, isValidated, changeLog, appliedLen, rendered,
                             submitBtn>>
  /\ UNCHANGED <<folderStructure, resetOnClose, hasPath, submits, edits, serverVars>>

\* the drop listener of setupDirectoryDropTarget: the item dragged from src
\* is dropped on the header of the directory drawn at itemPath
DirectoryDrop(src, itemPath) ==
  /\ PageActive /\ rendered.editable
  /\ edits < MaxEdits
  /\ edits' = edits + 1
  /\ IF src = itemPath THEN UNCHANGED <<folderStructure, changeLog, rendered, submitBtn, modal>>
     ELSE IF StartsWithSlash(itemPath, src)
       THEN modal' = showError /\ UNCHANGED <<folderStructure, changeLog, rendered, submitBtn>>
     ELSE IF getParentPath(src) = itemPath
       THEN UNCHANGED <<folderStructure, changeLog, rendered, submitBtn, modal>>
     ELSE IF findConflict(TargetChildren(itemPath), Last(src), 0) # 0
       THEN /\ modal' = ShowModal("conflictMove", FALSE, src, itemPath)
            /\ UNCHANGED <<folderStructure, changeLog, rendered, submitBtn>>
     ELSE /\ Edited(performMove(folderStructure, changeLog, src, itemPath, FALSE))
          /\ UNCHANGED modal
  /\ UNCHANGED <<originalStructure, isValidated, resetOnClose, hasPath, pending, appliedLen,
                 submits, serverVars>>

\* an item's header is dropped on the header of a directory
DropOnHeader ==
  \E src \in AllPaths(rendered.tree), itemPath \in DirPaths(rendered.tree) :
    DirectoryDrop(src, itemPath)

\* the drop listener of setupDropZone: the item dragged from src is dropped
\* on the drop zone of targetPath
ZoneDrop(src, targetPath) ==
  /\ PageActive /\ rendered.editable
  /\ edits < MaxEdits
  /\ edits' = edits + 1
  /\ IF targetPath # <<>> /\ StartsWithSlash(targetPath, src)
       THEN modal' = showError /\ UNCHANGED <<folderStructure, changeLog, rendered, submitBtn>>
     ELSE IF getParentPath(src) = targetPath
       THEN UNCHANGED <<folderStructure, changeLog, rendered, submitBtn, modal>>
     ELSE IF findConflict(CurrentTargetArray(targetPath), Last(src), 0) # 0
       THEN /\ modal' = ShowModal("conflictMove", FALSE, src, targetPath)
            /\ UNCHANGED <<folderStructure, changeLog, rendered, submitBtn>>
     ELSE /\ Edited(performMove(folderStructure, changeLog, src, targetPath, FALSE))
          /\ UNCHANGED modal
  /\ UNCHANGED <<originalStructure, isValidated, resetOnClose, hasPath, pending, appliedLen,
                 submits, serverVars>>

\* an item's header is dropped on a drop zone
DropOnZone ==
  \E src \in AllPaths(rendered.tree), targetPath \in DropZones(rendered.tree) :
    ZoneDrop(src, targetPath)

\* Replace in the conflict dialog of a move
ConflictMoveConfirm ==
  /\ modal.kind = "conflictMove"
  /\ modal' = Hidden
  /\ Edited(performMove(folderStructure, changeLog, modal.a, modal.b, TRUE))
  /\ UNCHANGED <<originalStructure, isValidated, resetOnClose, hasPath, pending, appliedLen,
                 submits, edits, serverVars>>

\* Cancel in a dialog whose Cancel button is hideModal
DialogCancel ==
  /\ modal.kind \in {"conflictMove", "conflictRename", "delete", "submit", "reset"}
  /\ modal' = Hidden
  /\ UNCHANGED <<folderStructure, originalStructure, isValidated, changeLog, rendered,
                 resetOnClose, hasPath, submitBtn, pending, appliedLen, submits, edits, serverVars>>

\* startRename on the item drawn at itemPath, then finishRename with newName
\* what the input holds after trim(); "" is an input left empty or blank
RenameTyped(itemPath, newName) ==
  /\ PageActive /\ rendered.editable
  /\ edits < MaxEdits
  /\ edits' = edits + 1
  /\ LET currentName == Last(itemPath)
         location == findItemLocation(folderStructure, itemPath)
     IN
     IF newName = "" \/ newName = currentName \/ location = <<>>
       THEN UNCHANGED <<folderStructure, changeLog, rendered, submitBtn, modal>>
     ELSE IF findConflict(ArrayAt(folderStructure, Front(location)), newName,
                          Last(location)) # 0
       THEN /\ modal' = ShowModal("conflictRename", FALSE, itemPath, <<newName>>)
            /\ UNCHANGED <<folderStructure, changeLog, rendered, submitBtn>>
     ELSE /\ Edited(performRename(folderStructure, changeLog, itemPath, newName, FALSE))
          /\ UNCHANGED modal
  /\ UNCHANGED <<originalStructure, isValidated, resetOnClose, hasPath, pending, appliedLen,
                 submits, serverVars>>

\* the names a user types in the rename input
TypedNames == ClientNames \cup {""}

finishRename ==
  \E itemPath \in AllPaths(rendered.tree), newName \in TypedNames :
    RenameTyped(itemPath, newName)

\* Replace in the conflict dialog of a rename
ConflictRenameConfirm ==
  /\ modal.kind = "conflictRename"
  /\ modal' = Hidden
  /\ Edited(performRename(folderStructure, changeLog, modal.a, modal.b[1], TRUE))
  /\ UNCHANGED <<originalStructure, isValidated, resetOnClose, hasPath, pending, appliedLen,
                 submits, edits, serverVars>>

\* click on an item's delete button
confirmDelete ==
  /\ PageActive /\ rendered.editable
  /\ edits < MaxEdits
  /\ edits' = edits + 1
  /\ \E itemPath \in AllPaths(rendered.tree) :
       modal' = ShowModal("delete", FALSE, itemPath, <<>>)
  /\ UNCHANGED <<folderStructure, originalStructure, isValidated, changeLog, rendered,
                 resetOnClose, hasPath, submitBtn, pending, appliedLen, submits, serverVars>>

\* Remove in the delete dialog
DeleteConfirm ==
  /\ modal.kind = "delete"
  /\ modal' = Hidden
  /\ Edited(performDelete(folderStructure, changeLog, modal.a, ItemOf(rendered.tree, modal.a)))
  /\ UNCHANGED <<originalStructure, isValidated, resetOnClose, hasPath, pending, appliedLen,
                 submits, edits, serverVars>>

\* click on Submit Changes, shown and enabled
handleSubmitChanges ==
  /\ PageActive /\ submitBtn = "enabled"
  /\ IF ~isValidated THEN UNCHANGED modal
     ELSE IF ~hasStructureChanged(originalStructure, folderStructure) THEN modal' = showError
     ELSE modal' = ShowModal("submit", FALSE, <<>>, <<>>)
  /\ UNCHANGED <<folderStructure, originalStructure, isValidated, changeLog, rendered,
                 resetOnClose, hasPath, submitBtn, pending, appliedLen, submits, edits, serverVars>>

\* Apply Changes in the confirmation dialog, the Safe clone box checked or
\* not: applyChangesToServer up to its await, the request leaves with
\* state.changeLog
SubmitConfirm ==
  /\ modal.kind = "submit"
  /\ submits < MaxSubmits
  /\ submits' = submits + 1
  /\ modal' = ShowModal("applying", FALSE, <<>>, <<>>)
  /\ \E clone \in BOOLEAN : pending' = IF clone THEN "applyClone" ELSE "apply"
  /\ UNCHANGED <<folderStructure, originalStructure, isValidated, changeLog, rendered,
                 resetOnClose, hasPath, submitBtn, appliedLen, edits, serverVars>>

\* resetAfterSubmit
resetAfterSubmit ==
  /\ originalStructure' = folderStructure
  /\ changeLog' = <<>>
  /\ appliedLen' = 0
  /\ submitBtn' = updateSubmitButtonState(isValidated, folderStructure, folderStructure)

\* resetUI, with resetState
\* resetUI with a resetState that keeps state.originalStructure
resetUIKeepingOriginal ==
  /\ folderStructure' = NoTree
  /\ isValidated' = FALSE
  /\ changeLog' = <<>>
  /\ appliedLen' = 0
  /\ hasPath' = FALSE
  /\ rendered' = renderTree(NoTree, FALSE)
  /\ submitBtn' = "hidden"
  /\ UNCHANGED originalStructure

resetUI ==
  /\ folderStructure' = NoTree
  /\ originalStructure' = NoTree
  /\ isValidated' = FALSE
  /\ changeLog' = <<>>
  /\ appliedLen' = 0
  /\ hasPath' = FALSE
  /\ rendered' = renderTree(NoTree, FALSE)
  /\ submitBtn' = "hidden"

\* the answer of /api/apply-changes arrives: the rest of applyChangesToServer
ApplyResponse ==
  /\ pending \in {"apply", "applyClone"}
  /\ pending' = "none"
  /\ \E ok \in BOOLEAN :
       IF ok
         THEN /\ appliedLen' = Len(changeLog)
              /\ IF pending = "applyClone"
                   THEN /\ modal' = ShowModal("backupChoice", FALSE, <<>>, <<>>)
                        /\ UNCHANGED resetOnClose
                   ELSE /\ modal' = ShowModal("applied", TRUE, <<>>, <<>>)
                        /\ resetOnClose' = TRUE
         ELSE /\ modal' = showError
              /\ UNCHANGED <<appliedLen, resetOnClose>>
  /\ UNCHANGED <<folderStructure, originalStructure, isValidated, changeLog, rendered,
                 hasPath, submitBtn, submits, edits, serverVars>>

\* Keep Backup in the dialog of an apply that made a backup
KeepBackup ==
  /\ modal.kind = "backupChoice"
  /\ modal' = Hidden
  /\ resetAfterSubmit
  /\ UNCHANGED <<folderStructure, isValidated, rendered, resetOnClose, hasPath, pending,
                 submits, edits, serverVars>>

\* Remove Backup in that dialog: handleRemoveBackup up to its await
handleRemoveBackup ==
  /\ modal.kind = "backupChoice"
  /\ modal' = ShowModal("removing", FALSE, <<>>, <<>>)
  /\ pending' = "removeBackup"
  /\ UNCHANGED <<folderStructure, originalStructure, isValidated, changeLog, rendered,
                 resetOnClose, hasPath, submitBtn, appliedLen, submits, edits, serverVars>>

\* the answer of /api/remove-backup arrives: the rest of handleRemoveBackup
RemoveBackupResponse ==
  /\ pending = "removeBackup"
  /\ pending' = "none"
  /\ \E ok \in BOOLEAN :
       IF ok
         THEN /\ modal' = ShowModal("removed", TRUE, <<>>, <<>>)
              /\ resetOnClose' = TRUE
         ELSE /\ modal' = showError
              /\ UNCHANGED resetOnClose
  /\ UNCHANGED <<folderStructure, originalStructure, isValidated, changeLog, rendered,
                 hasPath, submitBtn, appliedLen, submits, edits, serverVars>>

\* click on the close button of the modal: hideModal, then the once
\* listener if one is registered
CloseClick ==
  /\ ModalOpen /\ modal.showClose
  /\ modal' = Hidden
  /\ resetOnClose' = FALSE
  /\ IF resetOnClose THEN resetAfterSubmit
     ELSE UNCHANGED <<originalStructure, changeLog, appliedLen, submitBtn>>
  /\ UNCHANGED <<folderStructure, isValidated, rendered, hasPath, pending, submits, edits, serverVars>>

\* the Escape key, or a click on the overlay, while the close button shows
EscapeOrOverlay ==
  /\ ModalOpen /\ modal.showClose
  /\ modal' = Hidden
  /\ UNCHANGED <<folderStructure, originalStructure, isValidated, changeLog, rendered,
                 resetOnClose, hasPath, submitBtn, pending, appliedLen, submits, edits, serverVars>>

\* click on Reset
handleReset ==
  /\ PageActive
  /\ IF isValidated /\ Len(changeLog) > 0
       THEN /\ modal' = ShowModal("reset", FALSE, <<>>, <<>>)
            /\ UNCHANGED <<folderStructure, originalStructure, isValidated, changeLog,
                           appliedLen, hasPath, rendered, submitBtn>>
       ELSE resetUI /\ UNCHANGED modal
  /\ UNCHANGED <<resetOnClose, pending, submits, edits, serverVars>>

\* Reset in the reset dialog
ResetConfirm ==
  /\ modal.kind = "reset"
  /\ modal' = Hidden
  /\ resetUI
  /\ UNCHANGED <<resetOnClose, pending, submits, edits, serverVars>>

\* ------------------------------------------------------------ the systems
Init == ServerInit /\ ClientInit

\* the applier serving requests one at a time
Next ==
  \/ ApplyBegin
  \/ ApplyBackup
  \/ ApplyReplay
  \/ RestoreRemoveRoot
  \/ RestoreCopy
  \/ RestoreRemoveTmp
  \/ RemoveBackup
  \/ HandlerReturn

Spec == Init /\ [][Next]_vars

\* the server at rest after a first apply of one rename instruction, with
\* makeBackup, has succeeded for the root at time 1: the disk holds the
\* backup, activeTmpFolders tracks it
\* a root with one file, and a file beside the root
TraversalTree ==
  [p \in {<<"root">>, <<"root", "a">>, <<"out">>} |-> IF p = <<"root">> THEN "dir" ELSE "file"]

\* entries of a request body whose paths and names hold '..' segments and
\* separators, and two that stay inside the root
TraversalEntries ==
  { [type |-> "delete", path |-> <<"..", "out">>],
    [type |-> "move", from |-> <<"a">>, to |-> <<"..", "x">>, override |-> FALSE],
    [type |-> "move", from |-> <<"..", "out">>, to |-> <<"a">>, override |-> TRUE],
    [type |-> "rename", path |-> <<"a">>, newName |-> "../x", override |-> FALSE],
    [type |-> "rename", path |-> <<"a">>, newName |-> "b", override |-> FALSE],
    [type |-> "delete", path |-> <<"a">>] }

\* the loop of applyChanges on a change log of any entries
ApplyReplayAny == pc = "replay" /\ \E change \in TraversalEntries : ReplayTurn(change)

InitTraversal ==
  /\ fs = TraversalTree
  /\ ServerAtRest
  /\ ClientInit

NextTraversal ==
  \/ ApplyBegin
  \/ ApplyBackup
  \/ ApplyReplayAny
  \/ RestoreRemoveRoot
  \/ RestoreCopy
  \/ RestoreRemoveTmp
  \/ HandlerReturn

\* one apply call whose change log is not one the page recorded
SpecTraversal == InitTraversal /\ [][NextTraversal]_vars

\* every filesystem call returns or throws: the step a started call waits
\* for is taken
ApplyFairness ==
  /\ WF_vars(ApplyBackup)
  /\ WF_vars(ApplyReplay)
  /\ WF_vars(RestoreRemoveRoot)
  /\ WF_vars(RestoreCopy)
  /\ WF_vars(RestoreRemoveTmp)

\* the server whose filesystem calls all return or throw
SpecLive == Init /\ [][Next]_vars /\ ApplyFairness

InitRepeat ==
  /\ \E t \in InitTrees, change \in RenameEntries :
       LET r == applyChange(CopyDirectory(t, RootPath, getTmpFolderPath(RootPath, 1)),
                            RootPath, change)
       IN  r.ok /\ fs = r.fs
  /\ activeTmpFolders = MapSet(<<>>, RootPath, getTmpFolderPath(RootPath, 1))
  /\ clock = 1
  /\ pc = "idle"
  /\ req = NoRequest
  /\ idx = 0
  /\ tmpPath = NoPath
  /\ res = NoResponse
  /\ preFs = fs
  /\ preMap = activeTmpFolders
  /\ executed = <<>>
  /\ failedAt = 0
  /\ missingDeletes = {}
  /\ mutated = FALSE
  /\ backupState = "none"
  /\ restoreState = "none"
  /\ lastOp = "none"
  /\ prevRemoved = NoPath
  /\ applies = 0
  /\ removes = 0
  /\ other = NoOther
  /\ cmp = NoCompare
  /\ chg = NoChange
  /\ ClientInit

\* the applier serving the requests that follow a first apply
SpecRepeat == InitRepeat /\ [][Next]_vars

\* between two requests something other than the server removes a backup
\* directory that the server tracks
BackupRemovedExternally ==
  /\ pc = "idle"
  /\ \E a \in DOMAIN activeTmpFolders :
       /\ Exists(fs, activeTmpFolders[a])
       /\ fs' = RemoveTree(fs, activeTmpFolders[a])
  /\ preFs' = fs'
  /\ UNCHANGED <<activeTmpFolders, clock, pc, req, idx, tmpPath, res, preMap, executed,
                 failedAt, missingDeletes, mutated, backupState, restoreState, lastOp,
                 prevRemoved, applies, removes, other, cmp, chg, clientVars>>

NextExternal ==
  \/ Next
  \/ BackupRemovedExternally

\* the applier on a disk that others write to as well
SpecExternal == Init /\ [][NextExternal]_vars

\* the tree on disk before either of two overlapping calls
ConcurrentTree == [p \in {<<"root">>, <<"root", "a">>} |-> IF p = <<"root">> THEN "dir" ELSE "file"]

InitConcurrent ==
  /\ ServerInit
  /\ fs = ConcurrentTree
  /\ ClientInit

\* one apply call and a second one, their steps interleaved by the event loop
NextConcurrent ==
  \/ ApplyBegin
  \/ ApplyBackup
  \/ ApplyReplay
  \/ RestoreRemoveRoot
  \/ RestoreCopy
  \/ RestoreRemoveTmp
  \/ OtherBegin
  \/ OtherBackup
  \/ OtherReplay
  \/ OtherRestoreRemoveRoot
  \/ OtherRestoreCopy
  \/ OtherRestoreRemoveTmp

\* two overlapping calls of /api/apply-changes on one root
SpecConcurrent == InitConcurrent /\ [][NextConcurrent]_vars

InitCompare ==
  /\ ServerInit
  /\ fs = ConcurrentTree
  /\ ClientInit

NextCompare ==
  \/ Validate
  \/ ValidatePermuted
  \/ ValidateTouched
  \/ ValidateRenamedLeaf

\* compareStructures on the structures of a validate request, and on
\* variations of them
SpecCompare == InitCompare /\ [][NextCompare]_vars

\* the snapshots of the sessions that are edited: what buildFolderStructure
\* builds for four folders
EditTrees ==
  ClientTrees \cup
  { <<[Dir("a", <<File("b", 1)>>) EXCEPT !.size = 1], [Dir("b", <<File("b", 2)>>) EXCEPT !.size = 2],
      File("c", 4)>>,
    <<[Dir("b", <<[Dir("a", <<File("a", 1)>>) EXCEPT !.size = 1], File("b", 2), File("c", 4)>>)
         EXCEPT !.size = 7],
      File("a", 8)>> }

\* a session that has just been validated, its dialog closed, with
\* MaxSessionEdits gestures ahead of it
InitEdit ==
  /\ ServerInit
  /\ fs = ConcurrentTree
  /\ folderStructure \in EditTrees
  /\ originalStructure = folderStructure
  /\ isValidated = TRUE
  /\ changeLog = <<>>
  /\ rendered = renderTree(folderStructure, TRUE)
  /\ modal = Hidden
  /\ resetOnClose = FALSE
  /\ hasPath = TRUE
  /\ submitBtn = "disabled"
  /\ pending = "none"
  /\ appliedLen = 0
  /\ submits = 0
  /\ edits = MaxEdits - MaxSessionEdits

NextEdit ==
  \/ DropOnHeader
  \/ DropOnZone
  \/ ConflictMoveConfirm
  \/ DialogCancel
  \/ finishRename
  \/ ConflictRenameConfirm
  \/ confirmDelete
  \/ DeleteConfirm

\* the edit engine in a validated session
SpecEdit == InitEdit /\ [][NextEdit]_vars

\* sortItems(items) on an array of items in any order
Sorted(op, items) ==
  [op |-> op, original |-> items, current |-> sortItems(items),
   changed |-> sortItems(items) # items, before |-> chg.changed]

SortCall ==
  /\ chg.op = "none"
  /\ \E items \in ClientStructures : chg' = Sorted("sort", items)
  /\ UNCHANGED changeFrame

\* sortItems again, on what the first call left
SortAgain ==
  /\ chg.op = "sort"
  /\ chg' = Sorted("resort", chg.current)
  /\ UNCHANGED changeFrame

NextSort == SortCall \/ SortAgain

\* sortItems alone, called on arrays and on its own results
SpecSort == InitCompare /\ [][NextSort]_vars

NextChange ==
  \/ DetectChange
  \/ DetectPermuted
  \/ DetectTouched

\* hasStructureChanged on two trees, and on variations of them
SpecChange == InitCompare /\ [][NextChange]_vars

\* the page, its server left aside: the answers it gets are inputs
InitClient ==
  /\ ServerInit
  /\ fs = CHOOSE t \in InitTrees : TRUE
  /\ ClientInit

NextClient ==
  \/ handleFolderSelect
  \/ PathInput
  \/ handleSubmit
  \/ ValidateResponse
  \/ DropOnHeader
  \/ DropOnZone
  \/ ConflictMoveConfirm
  \/ DialogCancel
  \/ finishRename
  \/ ConflictRenameConfirm
  \/ confirmDelete
  \/ DeleteConfirm
  \/ handleSubmitChanges
  \/ SubmitConfirm
  \/ ApplyResponse
  \/ KeepBackup
  \/ handleRemoveBackup
  \/ RemoveBackupResponse
  \/ CloseClick
  \/ EscapeOrOverlay
  \/ handleReset
  \/ ResetConfirm

SpecClient == InitClient /\ [][NextClient]_vars

\* ------------------------------------------------------ claims, the applier
\* the request in flight is an apply that has been answered
ApplyAnswered == pc = "done" /\ lastOp = "apply"

RootRestored == Tree(fs, req.absolutePath) = Tree(preFs, req.absolutePath)

\* C1: when a move or rename throws during the replay of an apply with
\* makeBackup and the three restore steps succeed, the tree under the root is
\* the one the request found, nothing else of the filesystem differs, and the
\* answer is the 500 failure.
C1_RestoreReturnsRoot ==
  (ApplyAnswered /\ req.clone /\ failedAt # 0 /\ restoreState = "done")
    => /\ RootRestored
       /\ Restrict(fs, DOMAIN fs \ Under(fs, tmpPath)) = Restrict(preFs, DOMAIN preFs \ Under(preFs, tmpPath))
       /\ res.status = 500 /\ res.kind = "apply_failed"

\* C1 witness: the second instruction threw after the first had changed the
\* tree, and the restore ran to its end
C1_Witness ==
  ApplyAnswered /\ req.clone /\ failedAt = 2 /\ mutated /\ restoreState = "done"

\* C2: when the copy to the backup path throws, at whatever step, no
\* instruction is run, the tree under the root is unchanged, the answer is
\* the 500 backup failure, and activeTmpFolders is as the request found it.
C2_BackupFailureAborts ==
  (ApplyAnswered /\ backupState = "failed")
    => /\ executed = <<>> /\ ~mutated
       /\ RootRestored
       /\ res.status = 500 /\ res.kind = "backup_failed"
       /\ activeTmpFolders = preMap

\* C2 witness: the copy threw after it had created part of the backup
C2_Witness ==
  /\ ApplyAnswered /\ backupState = "failed"
  /\ Cardinality(Under(fs, tmpPath)) >= 2
  /\ Tree(fs, tmpPath) # Tree(fs, req.absolutePath)

\* C3: when an apply with makeBackup succeeds, the backup directory exists,
\* holds the tree the root had before the first instruction, its path is in
\* the answer, and activeTmpFolders maps the root to it.
C3_BackupKeptOnSuccess ==
  (ApplyAnswered /\ req.clone /\ res.status = 200)
    => /\ Exists(fs, tmpPath)
       /\ Tree(fs, tmpPath) = Tree(preFs, req.absolutePath)
       /\ res.tmpPath = tmpPath /\ res.kind = "applied_backup"
       /\ MapHas(activeTmpFolders, req.absolutePath)
       /\ activeTmpFolders[req.absolutePath] = tmpPath

\* C3 witness: a was renamed to b: the root has b and not a, the backup has a
C3_Witness ==
  /\ ApplyAnswered /\ req.clone /\ res.status = 200
  /\ Exists(preFs, <<"root", "a">>) /\ ~Exists(preFs, <<"root", "b">>)
  /\ Exists(fs, <<"root", "b">>) /\ ~Exists(fs, <<"root", "a">>)
  /\ Exists(fs, Append(tmpPath, "a")) /\ ~Exists(fs, Append(tmpPath, "b"))

\* C4 as stated: after an apply with makeBackup whose replay threw and whose
\* restore succeeded, the root is restored and the backup of that call is
\* still there and tracked, so that removeBackup resolves it.
C4_BackupStillResolvable ==
  (ApplyAnswered /\ req.clone /\ failedAt # 0 /\ restoreState = "done")
    => /\ RootRestored
       /\ MapHas(activeTmpFolders, req.absolutePath)
       /\ activeTmpFolders[req.absolutePath] = tmpPath
       /\ Exists(fs, tmpPath)

\* C4 amended: after such an apply the root is restored, the backup of that
\* call has been removed and is not tracked: activeTmpFolders is as the
\* request found it and no entry of it names the backup path.
C4_RestoredBackupRemoved ==
  (ApplyAnswered /\ req.clone /\ failedAt # 0 /\ restoreState = "done")
    => /\ RootRestored
       /\ ~Exists(fs, tmpPath)
       /\ activeTmpFolders = preMap
       /\ \A k \in DOMAIN activeTmpFolders : activeTmpFolders[k] # tmpPath

\* C4 witness: the first instruction threw (its source does not exist), the
\* restore ran to its end
C4_Witness ==
  /\ ApplyAnswered /\ req.clone /\ failedAt = 1 /\ restoreState = "done"
  /\ ~MapHas(activeTmpFolders, req.absolutePath)

\* C5: when a restore step throws, the backup directory still exists and the
\* 500 answer names its path.
C5_RestoreFailureKeepsBackup ==
  (ApplyAnswered /\ restoreState = "failed")
    => /\ Exists(fs, tmpPath)
       /\ res.status = 500 /\ res.kind = "restore_failed"
       /\ res.tmpPath = tmpPath /\ tmpPath # NoPath

\* C5 witness: the third step threw after removing part of the backup
C5_Witness ==
  /\ ApplyAnswered /\ restoreState = "failed"
  /\ RootRestored
  /\ Tree(fs, tmpPath) # Tree(preFs, req.absolutePath)

\* C6: a delete whose target does not exist is never the instruction that
\* fails; when no move or rename throws, every instruction of the log is run,
\* no restore starts and the answer is a success.
C6_MissingDeleteTolerated ==
  /\ failedAt \notin missingDeletes
  /\ (ApplyAnswered /\ missingDeletes # {} /\ failedAt = 0)
       => /\ res.status = 200
          /\ Len(executed) = req.logLen
          /\ restoreState = "none"

\* C6 witness: the first instruction was a delete of a missing target, the
\* second one ran and changed the tree, the answer is a success
C6_Witness ==
  /\ ApplyAnswered /\ 1 \in missingDeletes /\ executed = <<1, 2>>
  /\ mutated /\ res.status = 200

\* C7: the instructions are run one at a time in the order of the log, each
\* at most once, and none is run after the one that threw.
C7_ReplayInOrder ==
  /\ \A j \in 1..Len(executed) : executed[j] = j
  /\ Len(executed) <= req.logLen
  /\ failedAt # 0 => failedAt = Len(executed)
  /\ pc = "replay" => idx = Len(executed) + 1

\* C7 witness: the first of two instructions threw and the second was not run
C7_Witness ==
  ApplyAnswered /\ req.logLen = 2 /\ failedAt = 1 /\ executed = <<1>>

\* C10: removeBackup for a root without a tracked backup answers the
\* no-backup error and changes neither the filesystem nor the map; a
\* removeBackup that succeeded has removed the backup and forgotten the
\* entry; the removeBackup that follows one that succeeded for the same root
\* answers no-backup and deletes nothing.
C10_RemoveBackupTwice ==
  (pc = "done" /\ lastOp = "remove" /\ req.absolutePath # NoPath)
    => /\ ~MapHas(preMap, req.absolutePath)
            => /\ res.status = 400 /\ res.kind = "no_backup"
               /\ fs = preFs /\ activeTmpFolders = preMap
       /\ res.kind = "removed"
            => /\ ~MapHas(activeTmpFolders, req.absolutePath)
               /\ ~Exists(fs, preMap[req.absolutePath])
       /\ prevRemoved = req.absolutePath
            => /\ res.status = 400 /\ res.kind = "no_backup"
               /\ fs = preFs

\* C10 witness: the second of two removeBackup calls in succession, the
\* first of which removed the backup
C10_Witness ==
  /\ pc = "done" /\ lastOp = "remove" /\ prevRemoved = RootPath
  /\ req.absolutePath = RootPath /\ res.kind = "no_backup"

\* C11: when removeBackup finds the root tracked but the backup directory
\* gone from the disk, it forgets the association, touches nothing on the
\* disk and answers with the 'no longer exists' status of its own, a 400
\* and not the 500 of a removal that failed.
C11_GoneBackupForgotten ==
  (/\ pc = "done" /\ lastOp = "remove"
   /\ MapHas(preMap, req.absolutePath)
   /\ ~Exists(preFs, preMap[req.absolutePath]))
    => /\ res.kind = "backup_gone" /\ res.status = 400
       /\ ~MapHas(activeTmpFolders, req.absolutePath)
       /\ fs = preFs

\* C11 witness: a removeBackup answered for a root whose tracked backup had
\* been removed from outside
C11_Witness ==
  /\ pc = "done" /\ lastOp = "remove" /\ req.absolutePath = RootPath
  /\ MapHas(preMap, RootPath) /\ ~Exists(preFs, preMap[RootPath])
  /\ res.kind = "backup_gone"

\* C12: activeTmpFolders holds one backup path per root: when an apply with
\* makeBackup succeeds for a root that already has a tracked backup, the
\* root is mapped to the new backup path, the older backup directory is on
\* the disk as it was, and a removeBackup that succeeds removes the tracked
\* backup and nothing else.
C12_OneBackupTracked ==
  /\ (ApplyAnswered /\ req.clone /\ res.status = 200 /\ MapHas(preMap, req.absolutePath))
       => /\ activeTmpFolders = MapSet(preMap, req.absolutePath, tmpPath)
          /\ tmpPath # preMap[req.absolutePath]
          /\ Exists(preFs, preMap[req.absolutePath])
               => Tree(fs, preMap[req.absolutePath]) = Tree(preFs, preMap[req.absolutePath])
  /\ (pc = "done" /\ lastOp = "remove" /\ res.kind = "removed")
       => /\ fs = RemoveTree(preFs, preMap[req.absolutePath])
          /\ activeTmpFolders = MapDelete(preMap, req.absolutePath)

\* C12 witness: after a second apply with makeBackup succeeded, removeBackup
\* has removed the backup made at time 2 and the one made at time 1 is
\* still on the disk
C12_Witness ==
  /\ pc = "done" /\ lastOp = "remove" /\ res.kind = "removed"
  /\ preMap[req.absolutePath] = getTmpFolderPath(RootPath, 2)
  /\ Exists(fs, getTmpFolderPath(RootPath, 1))
  /\ ~Exists(fs, getTmpFolderPath(RootPath, 2))

\* C13: an apply whose path is missing, no string or not accessible, or
\* whose change log is missing, no array or empty, is answered with a 400
\* before a backup is made and before the disk or the backup map changes.
C13_BadInputRejected ==
  (/\ ApplyAnswered
   /\ \/ req.absolutePath \in {NoPath, NotAString}
      \/ req.logLen <= 0
      \/ ~Exists(preFs, req.absolutePath))
    => /\ res.status = 400
       /\ backupState = "none" /\ tmpPath = NoPath
       /\ executed = <<>>
       /\ fs = preFs
       /\ activeTmpFolders = preMap

\* C13 witness: an apply with makeBackup and a log of two entries for a path
\* that does not exist has been answered
C13_Witness ==
  /\ ApplyAnswered /\ req.absolutePath = <<"gone">> /\ req.clone /\ req.logLen = 2
  /\ res.kind = "not_accessible"

Match == [isMatch |-> TRUE, differences |-> <<>>]

\* C15: for every tree T, compareStructures(T, T) returns isMatch = true and
\* an empty differences list. Checked on the call the state holds when its
\* two arguments are one tree, and on each argument compared with itself.
C15_SelfCompareMatches ==
  cmp.op # "none" =>
    /\ cmp.client = cmp.server => cmp.result = Match
    /\ \A T \in {cmp.client, cmp.server} : compareStructures(T, T) = Match

C15_Witness ==
  /\ cmp.op = "validate"
  /\ cmp.client = cmp.server
  /\ IsTree(cmp.client)
  /\ Len(cmp.client) = MaxItems
  /\ \E i \in 1..Len(cmp.client) : cmp.client[i].children # <<>>
  /\ cmp.result = Match

ItemNamed(items, n) == items[CHOOSE i \in 1..Len(items) : items[i].name = n]

NamesOf(items) == {items[i].name : i \in 1..Len(items)}

RECURSIVE ExpectedDifferences(_, _, _)
\* what the comparison of two trees is to report below pathPrefix: a name of
\* one level only is missing on the other side, a name of both levels with
\* two types is a mismatch, directories of both levels are compared below,
\* no children standing for none
ExpectedDifferences(client, server, pathPrefix) ==
  LET both == NamesOf(client) \cap NamesOf(server) IN
    {Difference("missing_on_server", Append(pathPrefix, n)) : n \in NamesOf(client) \ NamesOf(server)}
    \cup {Difference("missing_on_client", Append(pathPrefix, n)) : n \in NamesOf(server) \ NamesOf(client)}
    \cup {Difference("type_mismatch", Append(pathPrefix, n)) :
            n \in {m \in both : ItemNamed(client, m).isDirectory # ItemNamed(server, m).isDirectory}}
    \cup UNION {ExpectedDifferences(IF ItemNamed(client, n).hasChildren
                                      THEN ItemNamed(client, n).children ELSE <<>>,
                                    IF ItemNamed(server, n).hasChildren
                                      THEN ItemNamed(server, n).children ELSE <<>>,
                                    Append(pathPrefix, n)) :
                  n \in {m \in both : ItemNamed(client, m).isDirectory
                                      /\ ItemNamed(server, m).isDirectory}}

\* C16: for all client and server trees compareStructures reports exactly
\* one missing_on_server for each path whose name is in the client level and
\* not in the server level, exactly one missing_on_client for each path whose
\* name is in the server level and not in the client level, nothing below a
\* missing entry, compares the directories found on both sides with absent
\* children read as none, and returns isMatch = true exactly when the list of
\* differences is empty.
C16_DifferencesAsSpecified ==
  cmp.op # "none" =>
    LET d == cmp.result.differences IN
      /\ cmp.result.isMatch <=> d = <<>>
      /\ (IsTree(cmp.client) /\ IsTree(cmp.server)) =>
           /\ Range(d) = ExpectedDifferences(cmp.client, cmp.server, <<>>)
           /\ Cardinality({d[i].path : i \in 1..Len(d)}) = Len(d)

C16_Witness ==
  /\ cmp.op = "validate"
  /\ IsTree(cmp.client) /\ IsTree(cmp.server)
  /\ ~cmp.result.isMatch
  /\ \E i \in 1..Len(cmp.client) :
       /\ cmp.client[i].isDirectory /\ ~cmp.client[i].hasChildren
       /\ Difference("missing_on_client", <<cmp.client[i].name, "a">>)
            \in Range(cmp.result.differences)
  /\ \E d \in Range(cmp.result.differences) : d.type = "missing_on_server"

RECURSIVE MismatchPaths(_, _, _)
\* the paths, reached through directories of both sides, of the names that
\* both sides have with differing isDirectory
MismatchPaths(client, server, pathPrefix) ==
  LET both == NamesOf(client) \cap NamesOf(server) IN
    {Append(pathPrefix, n) :
       n \in {m \in both : ItemNamed(client, m).isDirectory # ItemNamed(server, m).isDirectory}}
    \cup UNION {MismatchPaths(ItemNamed(client, n).children, ItemNamed(server, n).children,
                              Append(pathPrefix, n)) :
                  n \in {m \in both : ItemNamed(client, m).isDirectory
                                      /\ ItemNamed(server, m).isDirectory}}

\* C17: when a name is on both sides at one path with differing isDirectory,
\* compareStructures reports exactly one type_mismatch for that path and
\* nothing for any path below it, whatever the directory side holds.
C17_MismatchNotDescended ==
  (cmp.op # "none" /\ IsTree(cmp.client) /\ IsTree(cmp.server)) =>
    LET d == cmp.result.differences IN
      \A p \in MismatchPaths(cmp.client, cmp.server, <<>>) :
        /\ Cardinality({i \in 1..Len(d) : d[i].path = p}) = 1
        /\ Difference("type_mismatch", p) \in Range(d)
        /\ \A i \in 1..Len(d) : ~IsStrictPrefix(p, d[i].path)

C17_Witness ==
  /\ cmp.op = "validate"
  /\ IsTree(cmp.client) /\ IsTree(cmp.server)
  /\ \E i \in 1..Len(cmp.client), j \in 1..Len(cmp.server) :
       /\ cmp.client[i].name = cmp.server[j].name
       /\ cmp.client[i].isDirectory /\ cmp.client[i].children # <<>>
       /\ ~cmp.server[j].isDirectory
       /\ Difference("type_mismatch", <<cmp.client[i].name>>) \in Range(cmp.result.differences)

\* C18: for trees A and B that differ only in the name of one leaf, a file
\* or an empty directory whose new name no sibling has, compareStructures(A,
\* B) returns exactly two differences: missing_on_server for the path of the
\* leaf in A and missing_on_client for its path in B.
C18_RenamedLeafTwoDifferences ==
  cmp.op = "rename" =>
    /\ Len(cmp.result.differences) = 2
    /\ Range(cmp.result.differences) =
         {Difference("missing_on_server", cmp.from), Difference("missing_on_client", cmp.to)}
    /\ ~cmp.result.isMatch

C18_Witness ==
  /\ cmp.op = "rename"
  /\ Len(cmp.from) = 2
  /\ Len(cmp.client) = MaxItems
  /\ Len(cmp.result.differences) = 2

\* C19: compareStructures does not depend on the order of siblings: with the
\* children of any level of either tree permuted, isMatch is the same and
\* the set of (type, path) differences is the same.
C19_OrderIndependent ==
  (cmp.op = "permute" /\ IsTree(cmp.client) /\ IsTree(cmp.server)) =>
    /\ cmp.result.isMatch = cmp.before.isMatch
    /\ Range(cmp.result.differences) = Range(cmp.before.differences)

C19_Witness ==
  /\ cmp.op = "permute"
  /\ IsTree(cmp.client) /\ IsTree(cmp.server)
  /\ cmp.result.differences # cmp.before.differences
  /\ Range(cmp.result.differences) = Range(cmp.before.differences)

\* C20: compareStructures ignores size and lastModified: with the size or
\* the lastModified of any item of either tree changed, isMatch and the list
\* of differences are the same, so that trees which agree on names, types
\* and nesting only are a match.
C20_SizeAndTimeIgnored ==
  cmp.op = "touch" => cmp.result = cmp.before

C20_Witness ==
  /\ cmp.op = "touch"
  /\ cmp.result.isMatch
  /\ \E ip \in IndexPaths(cmp.client) \cap IndexPaths(cmp.server) :
       /\ Len(ip) = 2
       /\ NamePath(cmp.client, ip) = NamePath(cmp.server, ip)
       /\ NodeAt(cmp.client, ip).size # NodeAt(cmp.server, ip).size

\* the answers of POST /api/apply-changes: input rejected (three checks),
\* backup failed, applied, applied with backup, failed (without backup, or
\* restored), failed and restore failed
ApplyOutcomes ==
  {"path_required", "log_required", "not_accessible", "backup_failed", "applied",
   "applied_backup", "apply_failed", "restore_failed"}

ApplyStarted == lastOp = "apply" /\ pc # "idle"

ApplyEnded == lastOp = "apply" /\ pc = "done" /\ res.kind \in ApplyOutcomes

\* C34: when every filesystem call returns or throws, every apply call that
\* has started ends with one answer out of: input rejected, backup failed,
\* applied, applied with backup, failed, failed and restore failed. Until
\* then it has not answered, and no started replay is left without reaching
\* its end or the end of the restore.
C34_ApplyEnds ==
  /\ [](ApplyStarted /\ pc # "done" => res = NoResponse)
  /\ ApplyStarted ~> ApplyEnded

\* C34 witness: the call has ended on the recovery path, the backup copied
\* back and removed
C34_Witness ==
  /\ ApplyEnded
  /\ res.kind = "apply_failed"
  /\ restoreState = "done"
  /\ executed # <<>>

\* what the filesystem holds outside the root and outside the backup
\* directory of the call
OutsideRoot(f) ==
  Restrict(f, {p \in DOMAIN f :
                 /\ ~IsPrefix(RootPath, p)
                 /\ tmpPath = NoPath \/ ~IsPrefix(tmpPath, p)})

\* C37: whatever entries an accepted change log holds, with '..' segments
\* or separators in from, to, path or newName, the replay removes, renames
\* and creates only inside the root: outside the root and the sibling backup
\* directory the filesystem stays as the request found it.
C37_ReplayStaysInRoot ==
  (lastOp = "apply" /\ pc # "idle") => OutsideRoot(fs) = OutsideRoot(preFs)

\* ------------------------------------------ claims, the edit engine
RECURSIVE NamedEntries(_, _)
\* the named entries of a tree: each path with its type, through the
\* directories that hold it
NamedEntries(items, pathPrefix) ==
  UNION {{[path |-> Append(pathPrefix, items[k].name), isDirectory |-> items[k].isDirectory]}
           \cup NamedEntries(items[k].children, Append(pathPrefix, items[k].name)) :
         k \in 1..Len(items)}

\* C21: hasStructureChanged(T, T) is false for every tree T;
\* hasStructureChanged(T, T') is true whenever T' differs from T by an added,
\* a removed or a type-swapped named entry at any depth; the answer does not
\* depend on the order of siblings, on size or on lastModified.
C21_ChangeDetected ==
  /\ chg.op # "none" =>
       /\ chg.original = chg.current => ~chg.changed
       /\ chg.changed <=> NamedEntries(chg.original, <<>>) # NamedEntries(chg.current, <<>>)
  /\ chg.op \in {"permute", "touch"} => chg.changed = chg.before

\* C21 witness: a call that answered true for two trees of the same names
\* at both levels and the same types at the top: a type swap at depth two
C21_Witness ==
  /\ chg.op = "detect"
  /\ chg.changed
  /\ Len(chg.original) = Len(chg.current)
  /\ \A k \in 1..Len(chg.original) :
       /\ chg.original[k].name = chg.current[k].name
       /\ chg.original[k].isDirectory = chg.current[k].isDirectory
       /\ Len(chg.original[k].children) = Len(chg.current[k].children)
       /\ \A j \in 1..Len(chg.original[k].children) :
            chg.original[k].children[j].name = chg.current[k].children[j].name
  /\ \E k \in 1..Len(chg.original) : chg.original[k].children # <<>>

\* a step that leaves the in-memory tree and the change log as they were
NoOp == folderStructure' = folderStructure /\ changeLog' = changeLog

\* C22: a move whose target directory is the source itself or a descendant
\* of the source is a no-op, on a directory header and on a drop zone: the
\* tree and the change log are unchanged. (That no node is its own ancestor
\* holds of every value of the structure here: movedItem is a copy, and the
\* structure is a nesting of sequences.)
C22_MoveIntoSelfRejected ==
  [][\A src \in AllPaths(rendered.tree) :
       /\ \A itemPath \in DirPaths(rendered.tree) :
            (IsPrefix(src, itemPath) /\ DirectoryDrop(src, itemPath)) => NoOp
       /\ \A targetPath \in DropZones(rendered.tree) :
            (IsPrefix(src, targetPath) /\ ZoneDrop(src, targetPath)) => NoOp]_vars

\* C23: a move whose target path is the source path, or the path of the
\* source's parent (the root for a top-level item), is a no-op: after the
\* drop the tree holds the nodes it held and no entry has been appended, on
\* a directory header and on every drop zone, a directory's own included.
C23_MoveToSelfOrParentNoOp ==
  [][\A src \in AllPaths(rendered.tree) :
       /\ \A itemPath \in DirPaths(rendered.tree) :
            ((itemPath = src \/ itemPath = getParentPath(src)) /\ DirectoryDrop(src, itemPath))
              => NoOp
       /\ \A targetPath \in DropZones(rendered.tree) :
            ((targetPath = src \/ targetPath = getParentPath(src)) /\ ZoneDrop(src, targetPath))
              => NoOp]_vars

\* the number of nodes of the in-memory tree
Nodes(items) == Cardinality(IndexPaths(items))

\* C24: the tree loses a node only in a step that confirms a dialog: Remove
\* in the delete dialog, or Replace in the conflict dialog of a move or of a
\* rename (the call with override = true); a drop or a rename that finds a
\* name conflict only opens the dialog, and that step, like Cancel in the
\* dialog, leaves tree and log unchanged.
C24_NeverOverwritesSilently ==
  [][/\ Nodes(folderStructure') < Nodes(folderStructure)
          => /\ modal.kind \in {"delete", "conflictMove", "conflictRename"}
             /\ modal' = Hidden
     /\ (modal.kind = "none" /\ modal'.kind \in {"conflictMove", "conflictRename"}) => NoOp
     /\ DialogCancel => NoOp]_vars

\* C25: in every state of a session that started from a snapshot with
\* unique sibling names, the names of the items of every children sequence
\* of the in-memory tree are pairwise different, whatever moves, renames and
\* deletes, with or without Replace in the conflict dialogs, came before.
C25_SiblingNamesUnique == isValidated => IsTree(folderStructure)

\* C25 witness: a rename that replaced its same-named sibling follows
\* another edit, and the tree still holds a directory with two children
C25_Witness ==
  /\ Len(changeLog) = 2
  /\ changeLog[2].type = "rename" /\ changeLog[2].override
  /\ \E q \in DirPaths(folderStructure) : Len(ItemOf(folderStructure, q).children) >= 2

RECURSIVE SizesAddUp(_)
\* the size of every directory is the sum of the sizes of its children
SizesAddUp(items) ==
  \A k \in 1..Len(items) :
    /\ items[k].isDirectory => items[k].size = SumSizes(items[k].children)
    /\ SizesAddUp(items[k].children)

\* an edit operation has run to its end: it appended its entry to the log
Completed == Len(changeLog') = Len(changeLog) + 1

\* C26: after every completed edit operation (move, rename, delete, with or
\* without override) the size of every directory of the in-memory tree is
\* the sum of the sizes of its children.
C26_SizesRecomputed == [][Completed => SizesAddUp(folderStructure')]_vars

RECURSIVE Canonical(_)
\* every directory of the sequence stands before every file, the names of
\* each group ascend, and the same holds in every children sequence
Canonical(items) ==
  /\ \A i, j \in 1..Len(items) :
       i < j => /\ items[j].isDirectory => items[i].isDirectory
                /\ items[i].isDirectory = items[j].isDirectory
                     => Rank(items[i].name) < Rank(items[j].name)
  /\ \A k \in 1..Len(items) : Canonical(items[k].children)

\* C27: after every completed edit operation (move, rename, delete) every
\* children sequence of the in-memory tree, the root's included, is in
\* canonical order: directories before files, each group ascending by name.
C27_CanonicalOrderKept == [][Completed => Canonical(folderStructure')]_vars

\* C27 witness: the one move of the session put its item in front of an
\* item its target already held
C27_Witness ==
  /\ Len(changeLog) = 1
  /\ changeLog[1].type = "move"
  /\ LET loc == findItemLocation(folderStructure, changeLog[1].to) IN
       /\ loc # <<>>
       /\ Last(loc) < Len(ArrayAt(folderStructure, Front(loc)))

\* the log holds two moves without override, the second taking the item of
\* the first from where it arrived back to where it came from
MovedThereAndBack ==
  /\ Len(changeLog) = 2
  /\ \A k \in 1..2 : changeLog[k].type = "move" /\ ~changeLog[k].override
  /\ changeLog[2].from = changeLog[1].to
  /\ changeLog[2].to = changeLog[1].from

\* C28: when a node has been moved from directory A to directory B and then
\* back from B to A, without conflict or override, and the log holds these
\* two move entries and no other, the tree equals the snapshot: same names,
\* types, nesting, order of siblings and sizes.
C28_MoveThereAndBack == MovedThereAndBack => folderStructure = originalStructure

\* C28 witness: an item that came from inside a directory, whose size the
\* first move changed, is back in it
C28_Witness ==
  /\ MovedThereAndBack
  /\ Len(changeLog[1].from) >= 2
  /\ folderStructure = originalStructure
  /\ findItemLocation(folderStructure, changeLog[1].from) # <<>>

RECURSIVE DirectoriesFirst(_)
\* no file stands before a directory, at any level
DirectoriesFirst(items) ==
  /\ \A i, j \in 1..Len(items) : (i < j /\ items[j].isDirectory) => items[i].isDirectory
  /\ \A k \in 1..Len(items) : DirectoriesFirst(items[k].children)

\* C29: sortItems leaves a sequence that is in canonical order at every
\* level as it is, so sorting its own result changes nothing; and in its
\* result every directory stands before every file, whatever their names.
C29_SortIdempotent ==
  chg.op \in {"sort", "resort"} =>
    /\ Canonical(chg.original) => chg.current = chg.original
    /\ chg.op = "resort" => chg.current = chg.original
    /\ DirectoriesFirst(chg.current)

\* C29 witness: the second call, after a first call that had to put a
\* directory named b in front of a file named a
C29_Witness ==
  /\ chg.op = "resort"
  /\ chg.before
  /\ Len(chg.current) = 2
  /\ chg.current[1].isDirectory /\ chg.current[1].name = "b"
  /\ ~chg.current[2].isDirectory /\ chg.current[2].name = "a"

RECURSIVE Contents(_, _)
\* the nodes of a tree: each path with its type and, for a file, its size
Contents(items, pathPrefix) ==
  UNION {{[path |-> Append(pathPrefix, items[k].name), isDirectory |-> items[k].isDirectory,
           size |-> IF items[k].isDirectory THEN 0 ELSE items[k].size]}
           \cup Contents(items[k].children, Append(pathPrefix, items[k].name)) :
         k \in 1..Len(items)}

\* the nodes at and below path p
Below(nodes, p) == {e \in nodes : IsPrefix(p, e.path)}

\* the nodes at and below src, as they are named once src stands at dest
Rerooted(nodes, src, dest) ==
  {[e EXCEPT !.path = dest \o SubSeq(e.path, Len(src) + 1, Len(e.path))] : e \in Below(nodes, src)}

\* C30: a move with override = true (Replace in the conflict dialog of a
\* move) that runs to its end removes the child of the target that has the
\* moved node's name, puts the moved node with its whole subtree in the
\* target and takes it out of its old parent, and appends the entry
\* {move, from: old path, to: target path + '/' + name (the name alone for
\* the root), override: true}; no other node is added or removed.
C30_MoveWithOverride ==
  [][(modal.kind = "conflictMove" /\ modal' = Hidden /\ Completed) =>
       LET src == modal.a
           dest == modal.b \o <<Last(src)>>
           nodes == Contents(folderStructure, <<>>)
       IN  /\ changeLog' = Append(changeLog, [type |-> "move", from |-> src, to |-> dest,
                                              override |-> TRUE])
           /\ Contents(folderStructure', <<>>)
                = ((nodes \ Below(nodes, src)) \ Below(nodes, dest))
                    \cup Rerooted(nodes, src, dest)]_vars

\* C30 witness: a directory with a child has replaced a same-named item of
\* the directory it was dropped on
C30_Witness ==
  /\ Len(changeLog) = 1
  /\ changeLog[1].type = "move" /\ changeLog[1].override
  /\ Len(changeLog[1].to) = 2
  /\ LET loc == findItemLocation(folderStructure, changeLog[1].to) IN
       /\ loc # <<>>
       /\ ItemAt(folderStructure, loc).isDirectory
       /\ ItemAt(folderStructure, loc).children # <<>>

\* the items of one sequence stand directories first, names ascending
LevelCanonical(items) ==
  \A i, j \in 1..Len(items) :
    i < j => /\ items[j].isDirectory => items[i].isDirectory
             /\ items[i].isDirectory = items[j].isDirectory
                  => Rank(items[i].name) < Rank(items[j].name)

\* C31: a rename whose new name is empty after trimming, or is the current
\* name, changes neither tree nor log; any other rename that meets no
\* conflict changes the name of the addressed node and nothing else of it
\* (type, children and size kept), leaves its sibling sequence sorted and
\* every other sequence as it was, and appends one rename entry with the
\* path, the old name and the new name.
C31_RenameFrame ==
  [][\A itemPath \in AllPaths(rendered.tree), newName \in TypedNames :
       RenameTyped(itemPath, newName) =>
         LET loc == findItemLocation(folderStructure, itemPath)
             parent == ArrayAt(folderStructure, Front(loc))
             item == ItemAt(folderStructure, loc)
             after == ArrayAt(folderStructure', Front(loc))
         IN  IF newName = "" \/ newName = Last(itemPath) THEN NoOp
             ELSE (loc # <<>> /\ \A k \in 1..Len(parent) : parent[k].name # newName) =>
                    /\ changeLog' = Append(changeLog,
                                           [type |-> "rename", path |-> itemPath,
                                            oldName |-> Last(itemPath), newName |-> newName,
                                            override |-> FALSE])
                    /\ Len(after) = Len(parent)
                    /\ Range(after) = (Range(parent) \ {item})
                                        \cup {[item EXCEPT !.name = newName]}
                    /\ LevelCanonical(after)
                    /\ WithArrayAt(folderStructure', Front(loc), parent) = folderStructure]_vars

\* C31 witness: a directory with a child has been renamed to c, without a
\* dialog, and holds its child under the new name
C31_Witness ==
  /\ Len(changeLog) = 1
  /\ changeLog[1].type = "rename" /\ ~changeLog[1].override
  /\ changeLog[1].newName = "c"
  /\ LET loc == findItemLocation(folderStructure,
                                 Front(changeLog[1].path) \o <<"c">>) IN
       /\ loc # <<>>
       /\ ItemAt(folderStructure, loc).children # <<>>

\* C32: edits exist only inside a validated session. While the session is
\* not validated the change log is empty, and the tree changes only by a
\* folder selection or by a reset, never by a move, a rename or a delete;
\* in the step in which a validation succeeds the change log is empty and
\* the stored original snapshot is structurally equal to the current tree.
C32_EditsOnlyWhenValidated ==
  [][/\ ~isValidated' => changeLog' = <<>>
     /\ (~isValidated /\ folderStructure' # folderStructure)
          => \/ handleFolderSelect
             \/ ~isValidated' /\ folderStructure' = NoTree
     /\ (~isValidated /\ isValidated')
          => /\ changeLog' = <<>>
             /\ folderStructure' = folderStructure
             /\ ~hasStructureChanged(originalStructure', folderStructure')]_vars

\* C32 witness: a validation has just succeeded in a page that had been
\* edited and reset before
C32_Witness ==
  /\ modal.kind = "validated"
  /\ isValidated
  /\ edits > 0
  /\ changeLog = <<>>
  /\ originalStructure = folderStructure

\* the session as resetState leaves it
SessionDiscarded ==
  /\ folderStructure' = NoTree
  /\ originalStructure' = NoTree
  /\ changeLog' = <<>>
  /\ ~isValidated'

\* tree, original snapshot, log and validated flag stay as they are
SessionKept ==
  UNCHANGED <<folderStructure, originalStructure, changeLog, isValidated>>

\* C33: a click on Reset discards the session at once (tree and original
\* snapshot empty, change log empty, not validated) unless the session is
\* validated with a non-empty log; then the click only opens the dialog,
\* Reset in the dialog discards the session, and Cancel leaves tree, log and
\* validated flag as they were.
C33_Reset ==
  [][/\ handleReset =>
          IF isValidated /\ Len(changeLog) > 0
            THEN SessionKept /\ modal'.kind = "reset"
            ELSE SessionDiscarded
     /\ ResetConfirm => SessionDiscarded
     /\ (modal.kind = "reset" /\ DialogCancel) => SessionKept]_vars

\* C33 witness: a session that had been validated and edited is back in the
\* initial state
C33_Witness ==
  /\ edits > 0
  /\ ~isValidated
  /\ folderStructure = NoTree /\ originalStructure = NoTree
  /\ changeLog = <<>>
  /\ modal = Hidden

\* C39: for two trees with unique sibling names the change detection of
\* the page and the differ of the server agree: hasStructureChanged(A, B)
\* is true exactly when compareStructures(A, B).isMatch is false.
C39_DetectionAgreesWithDiffer ==
  chg.op # "none" =>
    (chg.changed <=> ~compareStructures(chg.original, chg.current).isMatch)

\* C39 witness: both say different for two trees whose only difference is
\* an entry at depth two that one of them lacks
C39_Witness ==
  /\ chg.op = "detect"
  /\ chg.changed
  /\ LET d == compareStructures(chg.original, chg.current).differences IN
       /\ Len(d) = 1
       /\ d[1].type = "missing_on_client"
       /\ Len(d[1].path) = 2

\* the real directory at base that a tree is the snapshot of
FsOf(items, base) ==
  LET nodes == NamedEntries(items, <<>>)
  IN  [q \in {base} \cup {base \o e.path : e \in nodes} |->
         IF q = base \/ \E e \in nodes : base \o e.path = q /\ e.isDirectory
           THEN "dir" ELSE "file"]

RECURSIVE Replay(_, _, _)
\* applyChanges(basePath, changeLog) on the filesystem f: whether it
\* returned, and the filesystem it leaves
Replay(f, basePath, log) ==
  IF log = <<>> THEN [ok |-> TRUE, fs |-> f]
  ELSE LET r == applyChange(f, basePath, Head(log)) IN
       IF r.ok THEN Replay(r.fs, basePath, Tail(log)) ELSE r

\* C35: in a session whose snapshot matched the real directory, whatever
\* moves, renames and deletes (Replace included) have been recorded, the
\* replay of the change log on that directory succeeds and leaves a real
\* tree of the same names, types and nesting as the edited in-memory tree;
\* so too when a move with override replaces an ancestor of the moved node.
C35_ReplayAgreesWithPreview ==
  isValidated =>
    LET r == Replay(FsOf(originalStructure, RootPath), RootPath, changeLog)
    IN  /\ r.ok
        /\ Tree(r.fs, RootPath) = Tree(FsOf(folderStructure, RootPath), RootPath)

\* C36: whenever submitting is allowed, that is the session is validated
\* and hasStructureChanged(original, current) is true, the change log is
\* not empty; in other words an empty change log implies that the current
\* tree is structurally equal to the original snapshot.
C36_ChangedImpliesLogged ==
  (isValidated /\ hasStructureChanged(originalStructure, folderStructure))
    => changeLog # <<>>

\* ------------------------------------------------------- claims, the page
\* log2 is log with exactly one entry appended at its end
IsAppend(log, log2) == Len(log2) = Len(log) + 1 /\ SubSeq(log2, 1, Len(log)) = log

\* C8: the change log of a session is replayed exactly once: an apply
\* request that leaves the page never carries entries that an apply which
\* succeeded has already replayed, however the success dialog was left.
C8_LogReplayedOnce == pending \in {"apply", "applyClone"} => appliedLen = 0

\* C9: during a validated session every step that changes the in-memory
\* tree appends exactly one entry at the end of the change log, a step that
\* changes the log either appends one entry, leaving the others as they
\* were, or empties it, and it is emptied only by a reset or when every
\* entry in it has been applied with success.
C9_LogMirrorsEdits ==
  [][isValidated =>
       /\ (isValidated' /\ folderStructure' # folderStructure)
            => IsAppend(changeLog, changeLog')
       /\ changeLog' # changeLog
            => \/ IsAppend(changeLog, changeLog')
               \/ /\ changeLog' = <<>>
                  /\ \/ ~isValidated'
                     \/ appliedLen = Len(changeLog)]_vars

\* C38: resetAfterSubmit runs only as the dismissal of the success dialog
\* of the apply that has just succeeded: the once listener put on the close
\* button for one apply fires at the close of that apply's dialog (or of its
\* Backup Removed dialog) and at no later dialog, so the entries recorded
\* after an apply that succeeded leave the log only applied or by a reset.
C38_ResetAfterSubmitOnlyOnSuccess ==
  [][/\ (CloseClick /\ resetOnClose) => modal.kind \in {"applied", "removed"}
     /\ (isValidated /\ isValidated' /\ changeLog # <<>> /\ changeLog' = <<>>)
          => /\ modal.kind \in {"applied", "removed", "backupChoice"}
             /\ appliedLen = Len(changeLog)]_vars

\* ------------------------------------- the two walks of one directory
\* A real directory D: its entries by their paths below the root, a file
\* with its size; a directory may hold nothing.
FileSizes == {1, 2}

DiskPaths == {<<n>> : n \in Names} \cup {<<n, m>> : n \in Names, m \in Names}

DiskEntries ==
  {[isDirectory |-> FALSE, size |-> sz] : sz \in FileSizes}
    \cup {[isDirectory |-> TRUE, size |-> 0]}

\* every entry below the root lies in a directory
Disks ==
  {d \in UNION {[S -> DiskEntries] : S \in SUBSET DiskPaths} :
     \A q \in DOMAIN d : Len(q) > 1 => Front(q) \in DOMAIN d /\ d[Front(q)].isDirectory}

\* the name of the selected folder: the first segment of webkitRelativePath
RootFolderName == "root"

FilesOf(d) == {q \in DOMAIN d : ~d[q].isDirectory}

\* the FileList of a folder selection: the files of D, and only the files,
\* in some order, each with its path from the selected folder on
FileLists(d) ==
  {[k \in 1..Cardinality(FilesOf(d)) |->
      [webkitRelativePath |-> <<RootFolderName>> \o order[k], size |-> d[order[k]].size]] :
     order \in {o \in [1..Cardinality(FilesOf(d)) -> FilesOf(d)] :
                  \A i, j \in 1..Cardinality(FilesOf(d)) : o[i] = o[j] => i = j}}

\* currentLevel.find(item => item.name === part && item.isDirectory): 0
\* stands for undefined
FindDirectory(currentLevel, part) ==
  IF \E k \in 1..Len(currentLevel) : currentLevel[k].name = part /\ currentLevel[k].isDirectory
    THEN CHOOSE k \in 1..Len(currentLevel) :
           /\ currentLevel[k].name = part /\ currentLevel[k].isDirectory
           /\ \A j \in 1..(k - 1) : ~(currentLevel[j].name = part /\ currentLevel[j].isDirectory)
    ELSE 0

RECURSIVE AddFile(_, _, _)
\* the inner loop of buildFolderStructure: the last part is pushed as a
\* file, every part before it is found as a directory or pushed as one
AddFile(currentLevel, pathParts, size) ==
  IF Len(pathParts) = 1 THEN Append(currentLevel, File(pathParts[1], size))
  ELSE LET dir == FindDirectory(currentLevel, pathParts[1]) IN
       IF dir = 0
         THEN Append(currentLevel, Dir(pathParts[1], AddFile(<<>>, Tail(pathParts), size)))
         ELSE [currentLevel EXCEPT ![dir].children = AddFile(@, Tail(pathParts), size)]

RECURSIVE AddFiles(_, _)
\* the outer loop: pathParts.shift() drops the root folder name; a file
\* with nothing left is skipped
AddFiles(root, files) ==
  IF files = <<>> THEN root
  ELSE LET pathParts == Tail(Head(files).webkitRelativePath) IN
       AddFiles(IF pathParts = <<>> THEN root ELSE AddFile(root, pathParts, Head(files).size),
                Tail(files))

\* buildFolderStructure(files)
buildFolderStructure(files) == sortItems(recalculateSizes(AddFiles(<<>>, files)))

\* JSON.stringify(state.folderStructure) as the server parses it: a file has
\* no children property, a directory has one
RECURSIVE Sent(_)
Sent(items) ==
  [k \in 1..Len(items) |->
     [name |-> items[k].name, isDirectory |-> items[k].isDirectory, size |-> items[k].size,
      lastModified |-> 0, hasChildren |-> HasChildren(items[k]),
      children |-> Sent(items[k].children)]]

\* fs.readdir(dirPath): the names in dirPath
Readdir(d, dirPath) == {q \in DOMAIN d : Len(q) = Len(dirPath) + 1 /\ Front(q) = dirPath}

RECURSIVE Listing(_)
\* the entries of a readdir in the order it yields them
Listing(S) == IF S = {} THEN <<>> ELSE LET q == CHOOSE x \in S : TRUE IN <<q>> \o Listing(S \ {q})

\* calculateDirectorySize(children)
calculateDirectorySize(children) == SumSizes(children)

RECURSIVE getDirectoryStructure(_, _)
\* getDirectoryStructure(dirPath): an item for every entry, a directory with
\* the scan of its own entries and their sizes summed, the items sorted
getDirectoryStructure(d, dirPath) ==
  LET entries == Listing(Readdir(d, dirPath))
      items == [k \in 1..Len(entries) |->
                  IF d[entries[k]].isDirectory
                    THEN LET children == getDirectoryStructure(d, entries[k]) IN
                         [CmpDir(Last(entries[k]), children)
                            EXCEPT !.size = calculateDirectorySize(children)]
                    ELSE [CmpFile(Last(entries[k])) EXCEPT !.size = d[entries[k]].size]]
  IN  SortLevel(<<>>, items)

\* handleFolderSelect on the FileList of D (an empty list leaves an empty
\* structure), beside the scan of D
Selected(d, files) ==
  [op |-> "select", disk |-> d, files |-> files,
   original |-> IF Len(files) = 0 THEN <<>> ELSE buildFolderStructure(files),
   current |-> getDirectoryStructure(d, <<>>),
   changed |-> FALSE, before |-> chg.changed]

FolderSelect ==
  /\ chg.op = "none"
  /\ \E d \in Disks : \E files \in FileLists(d) : chg' = Selected(d, files)
  /\ UNCHANGED changeFrame

NextSnapshot == FolderSelect

\* the snapshot of the page and the scan of the server, of one directory
SpecSnapshot == InitCompare /\ [][NextSnapshot]_vars

RECURSIVE SumOver(_, _)
SumOver(d, S) ==
  IF S = {} THEN 0 ELSE LET q == CHOOSE x \in S : TRUE IN d[q].size + SumOver(d, S \ {q})

\* the sizes of the files of D below the directory at p
DescendantFileSizes(d, p) == SumOver(d, {q \in FilesOf(d) : IsStrictPrefix(p, q)})

RECURSIVE DirectorySizesFrom(_, _, _)
\* every directory of the snapshot has the size of the files of D below it
DirectorySizesFrom(d, items, pathPrefix) ==
  \A k \in 1..Len(items) :
    items[k].isDirectory =>
      /\ items[k].size = DescendantFileSizes(d, Append(pathPrefix, items[k].name))
      /\ DirectorySizesFrom(d, items[k].children, Append(pathPrefix, items[k].name))

\* D holds a directory that holds nothing
HasEmptyDirectory(d) ==
  \E q \in DOMAIN d : d[q].isDirectory /\ Readdir(d, q) = {}

\* C40: for every real directory D the snapshot that buildFolderStructure
\* builds from the flat list of the files of D (first path segment dropped,
\* directories inferred from the path segments) matches the scan of D by the
\* server, compareStructures(client, server).isMatch, also when D holds
\* empty directories; and every directory of the snapshot has the size of
\* the files below it.
C40_SnapshotMatchesScan ==
  chg.op = "select" =>
    /\ compareStructures(Sent(chg.original), chg.current).isMatch
    /\ DirectorySizesFrom(chg.disk, chg.original, <<>>)

\* what does hold: the sizes always, the match for a D without an empty
\* directory
SnapshotMatchesScanOfFilledDirectories ==
  chg.op = "select" =>
    /\ DirectorySizesFrom(chg.disk, chg.original, <<>>)
    /\ ~HasEmptyDirectory(chg.disk) => compareStructures(Sent(chg.original), chg.current).isMatch
    /\ HasEmptyDirectory(chg.disk) => ~compareStructures(Sent(chg.original), chg.current).isMatch

SnapshotOfNestedFiles ==
  /\ chg.op = "select"
  /\ ~HasEmptyDirectory(chg.disk)
  /\ Len(chg.files) = 3
  /\ \E k \in 1..Len(chg.original) : chg.original[k].isDirectory /\ chg.original[k].size = 3

====
